---------------------------- MODULE Spec2Model ----------------------------
(***************************************************************************)
(* A model of the pixel-difference engine of the image comparison tool     *)
(* (src/diff_calculator.py, class ImageDiffCalculator): calculate_diff,    *)
(* _apply_hot_colormap and calculate_diff_stats, with the numpy float32    *)
(* and float64 arithmetic of the code carried out bit by bit.              *)
(***************************************************************************)
EXTENDS Integers, Sequences, FiniteSets, TLC

(***************************************************************************)
(* Binary floating point.  A number is [m |-> bits, e |-> exponent]: the   *)
(* bits of its significand, least significant first, and the weight 2^e    *)
(* of the first bit.  Zero has no bits.  A float of precision p has        *)
(* exactly p bits, the last one 1 (numpy float32: 24, float64: 53), and    *)
(* every operation rounds to nearest, ties to even, as IEEE 754 does.      *)
(***************************************************************************)
Float32Bits == 24

Float64Bits == 53

FloatZero == [m |-> <<>>, e |-> 0]

RECURSIVE Pow2(_)
Pow2(k) == IF k = 0 THEN 1 ELSE 2 * Pow2(k - 1)

Zeros(k) == [i \in 1..k |-> 0]

\* an array in memory: the function f with every element worked out
Array(f) == f @@ <<>>

\* F(v), with v worked out once
Let(v, F(_)) == CHOOSE r \in {F(x) : x \in {v}} : TRUE

RECURSIVE NatToBits(_)
NatToBits(n) == IF n = 0 THEN <<>> ELSE <<n % 2>> \o NatToBits(n \div 2)

RECURSIVE BitsToNat(_)
BitsToNat(b) == IF b = <<>> THEN 0 ELSE b[1] + 2 * BitsToNat(Tail(b))

RECURSIVE Increment(_)
Increment(b) ==
    IF b = <<>> THEN <<1>>
    ELSE IF b[1] = 0 THEN <<1>> \o Tail(b)
    ELSE <<0>> \o Increment(Tail(b))

RECURSIVE MulSmall(_, _, _)
MulSmall(b, k, carry) ==
    IF b = <<>> THEN NatToBits(carry)
    ELSE LET v == b[1] * k + carry
         IN  <<v % 2>> \o MulSmall(Tail(b), k, v \div 2)

RECURSIVE AddBits(_, _, _)
AddBits(a, b, carry) ==
    IF a = <<>> /\ b = <<>> THEN NatToBits(carry)
    ELSE LET x == IF a = <<>> THEN 0 ELSE a[1]
             y == IF b = <<>> THEN 0 ELSE b[1]
             v == x + y + carry
         IN  <<v % 2>> \o AddBits(IF a = <<>> THEN a ELSE Tail(a),
                                  IF b = <<>> THEN b ELSE Tail(b), v \div 2)

\* a <= b for two bit strings without leading zeros
RECURSIVE BitsLeq(_, _)
BitsLeq(a, b) ==
    IF Len(a) # Len(b) THEN Len(a) < Len(b)
    ELSE IF a = <<>> THEN TRUE
    ELSE IF a[Len(a)] # b[Len(b)] THEN a[Len(a)] < b[Len(b)]
    ELSE BitsLeq(SubSeq(a, 1, Len(a) - 1), SubSeq(b, 1, Len(b) - 1))

\* the bits m (last bit 1) of weight 2^e, followed below by a nonzero rest
\* when sticky, rounded to p bits
RoundToPrecision(m, e, sticky, p) ==
    LET L == Len(m)
    IN  IF L <= p THEN [m |-> Zeros(p - L) \o m, e |-> e - (p - L)]
        ELSE LET drop == L - p
                 kept == SubSeq(m, drop + 1, L)
                 low  == sticky \/ \E i \in 1..(drop - 1) : m[i] = 1
                 up   == m[drop] = 1 /\ (low \/ kept[1] = 1)
                 inc  == IF up THEN Increment(kept) ELSE kept
             IN  IF Len(inc) > p THEN [m |-> Tail(inc), e |-> e + drop + 1]
                 ELSE [m |-> inc, e |-> e + drop]

\* n / d = (n' / d') * 2^sh with d' <= n' < 2 d'
RECURSIVE Normalize(_, _, _)
Normalize(n, d, sh) ==
    IF n < d THEN Normalize(2 * n, d, sh - 1)
    ELSE IF n >= 2 * d THEN Normalize(n, 2 * d, sh + 1)
    ELSE [n |-> n, d |-> d, sh |-> sh]

\* the low 6 bits of v
Bits6(v) == [i \in 1..6 |-> (v \div Pow2(i - 1)) % 2]

\* the next bits of r / d (r < d < 2^25), at least count of them and six at
\* a time, and what is left
QuotientBits(r, d, count) ==
    LET st[k \in 0..((count + 5) \div 6)] ==
            IF k = 0 THEN [bits |-> <<>>, rem |-> r]
            ELSE LET prev == st[k - 1]
                     v    == prev.rem * 64
                 IN  [bits |-> Bits6(v \div d) \o prev.bits, rem |-> v % d]
    IN  st[(count + 5) \div 6]

\* the float of precision p nearest to n / d (n >= 0, d > 0)
FloatOfRatio(n, d, p) ==
    IF n = 0 THEN FloatZero
    ELSE LET s == Normalize(n, d, 0)
             q == QuotientBits(s.n - s.d, s.d, p)
         IN  RoundToPrecision(q.bits \o <<1>>, s.sh - Len(q.bits), q.rem # 0, p)

FloatOfNat(n, p) == FloatOfRatio(n, 1, p)

FloatDiv(x, y, p) ==
    IF x.m = <<>> THEN FloatZero
    ELSE LET f == FloatOfRatio(BitsToNat(x.m), BitsToNat(y.m), p)
         IN  [m |-> f.m, e |-> f.e + x.e - y.e]

FloatMulNat(x, k, p) ==
    IF x.m = <<>> \/ k = 0 THEN FloatZero
    ELSE RoundToPrecision(MulSmall(x.m, k, 0), x.e, FALSE, p)

\* x - y for x >= y >= 0
FloatSub(x, y, p) ==
    LET lo == IF y.m = <<>> \/ x.e < y.e THEN x.e ELSE y.e
        d  == BitsToNat(x.m) * Pow2(x.e - lo)
              - (IF y.m = <<>> THEN 0 ELSE BitsToNat(y.m) * Pow2(y.e - lo))
    IN  IF d = 0 THEN FloatZero
        ELSE RoundToPrecision(NatToBits(d), lo, FALSE, p)

\* x < y for floats of one precision, x >= 0, y >= 0
FloatLess(x, y) ==
    IF y.m = <<>> THEN FALSE
    ELSE IF x.m = <<>> THEN TRUE
    ELSE IF x.e # y.e THEN x.e < y.e
    ELSE x.m # y.m /\ BitsLeq(x.m, y.m)

\* whether x >= 0 is a whole number
FloatIsWhole(x) ==
    \A i \in 1..Len(x.m) : i <= -x.e => x.m[i] = 0

\* astype(np.uint8) of a float in [0, 256): the fraction is cut off
FloatTrunc(x) ==
    IF x.m = <<>> THEN 0
    ELSE IF x.e >= 0 THEN BitsToNat(x.m) * Pow2(x.e)
    ELSE IF -x.e >= Len(x.m) THEN 0
    ELSE BitsToNat(SubSeq(x.m, 1 - x.e, Len(x.m)))

(***************************************************************************)
(* _apply_hot_colormap (diff_calculator.py 68-101).  The gray value g of a *)
(* pixel is an integer 0..255; every step below is a float32 operation of  *)
(* numpy, the constants 0.33, 0.66, 0.8 and 0.2 being taken to float32.    *)
(***************************************************************************)
Float033 == FloatOfRatio(33, 100, Float32Bits)

Float066 == FloatOfRatio(66, 100, Float32Bits)

Float08 == FloatOfRatio(8, 10, Float32Bits)

Float02 == FloatOfRatio(2, 10, Float32Bits)

\* normalized = gray_array.astype(np.float32) / 255.0
Normalized(g) ==
    FloatDiv(FloatOfNat(g, Float32Bits), FloatOfNat(255, Float32Bits), Float32Bits)

\* red without the ramp of line 89: 255 wherever normalized > 0
HotRedNoRamp(n) == IF FloatLess(FloatZero, n) THEN 255 ELSE 0

\* green with the ramp taken from 0: normalized / 0.66 * 255
HotGreenFromZero(n) ==
    IF ~FloatLess(n, Float066) THEN 255
    ELSE IF FloatLess(Float033, n)
    THEN FloatTrunc(FloatMulNat(FloatDiv(n, Float066, Float32Bits), 255, Float32Bits))
    ELSE 0

\* red_mask / early_red_mask
HotRed(n) ==
    IF ~FloatLess(n, Float033) THEN 255
    ELSE IF FloatLess(FloatZero, n)
    THEN FloatTrunc(FloatMulNat(FloatDiv(n, Float033, Float32Bits), 255, Float32Bits))
    ELSE 0

\* green_mask / early_green_mask
HotGreen(n) ==
    IF ~FloatLess(n, Float066) THEN 255
    ELSE IF FloatLess(Float033, n)
    THEN FloatTrunc(FloatMulNat(
             FloatDiv(FloatSub(n, Float033, Float32Bits), Float033, Float32Bits),
             255, Float32Bits))
    ELSE 0

\* blue_mask
HotBlue(n) ==
    IF ~FloatLess(n, Float08)
    THEN FloatTrunc(FloatMulNat(
             FloatDiv(FloatSub(n, Float08, Float32Bits), Float02, Float32Bits),
             255, Float32Bits))
    ELSE 0

HotColor(g) ==
    LET n == Normalized(g) IN <<HotRed(n), HotGreen(n), HotBlue(n)>>

\* HotColor of the gray values 0..255 in turn, worked out once
HotTable == [i \in 1..256 |-> HotColor(i - 1)] \o <<>>

\* the colored array of a gray array (a function from pixel places to 0..255)
_apply_hot_colormap(gray_array) ==
    Array([pos \in DOMAIN gray_array |-> HotTable[gray_array[pos] + 1]])

(***************************************************************************)
(* Images.  A decoded RGB image is [width, height, px]: px gives each      *)
(* place <<x, y>> its three 8-bit channels.  A path names a file, which    *)
(* either decodes to an image or makes Image.open raise.                   *)
(***************************************************************************)
MaxWidth == 3

MaxHeight == 2

\* the colours of the pixels of the first and of the second image
BeforePalette == {<<0, 0, 0>>, <<10, 10, 10>>}

AfterPalette == {<<0, 0, 0>>, <<40, 20, 1>>}

Palette == BeforePalette \cup AfterPalette

\* the thresholds the options of a call carry
Thresholds == {0, 10, 17}

Places(w, h) == (0..(w - 1)) \X (0..(h - 1))

\* the sizes of the input images: one row or one column of pixels
Shapes == {<<w, 1>> : w \in 1..MaxWidth} \cup {<<1, h>> : h \in 1..MaxHeight}

ImagesOfShape(w, h, colours) ==
    {[width |-> w, height |-> h, px |-> f] : f \in [Places(w, h) -> colours]}

Images(colours) == UNION {ImagesOfShape(s[1], s[2], colours) : s \in Shapes}

NoImage == [width |-> 0, height |-> 0, px |-> <<>>]

\* what a path can name: an image file, or a file that is no image
NotAnImage == [decodable |-> FALSE, image |-> NoImage]

Files(colours) ==
    {[decodable |-> TRUE, image |-> i] : i \in Images(colours)} \cup {NotAnImage}

\* whether an image has no pixels: zero width or zero height
IsEmpty(img) == img.width = 0 \/ img.height = 0

\* the sizes of the images without pixels
EmptyShapes == {<<0, 1>>, <<1, 0>>, <<0, 0>>}

\* what PIL's resize does with a source without pixels is PIL's and not in
\* this code: it raises, or it fills the size asked for with some colour.
\* An image without pixels carries that outcome in resampled
ResampledOutcomes(colours) ==
    {[raises |-> TRUE, colour |-> <<0, 0, 0>>]}
        \cup {[raises |-> FALSE, colour |-> c] : c \in colours}

EmptyImages(colours) ==
    {[width |-> s[1], height |-> s[2], px |-> <<>>, resampled |-> r] :
        s \in EmptyShapes, r \in ResampledOutcomes(colours)}

\* the files of the calls on degenerate inputs: images without pixels,
\* images of one pixel, and a file that is no image
EmptyFiles(colours) ==
    {[decodable |-> TRUE, image |-> i] :
        i \in EmptyImages(colours) \cup ImagesOfShape(1, 1, colours)}
        \cup {NotAnImage}

\* img.resize((w, h), Image.Resampling.LANCZOS): the filter is PIL's; the
\* model keeps that the result has the size asked for and is a function of
\* the source image alone, taking each pixel from the source place under it
Resize(img, w, h) ==
    [width |-> w, height |-> h,
     px |-> IF IsEmpty(img)
            THEN Array([pos \in Places(w, h) |-> img.resampled.colour])
            ELSE Array([pos \in Places(w, h) |->
                img.px[<<((2 * pos[1] + 1) * img.width) \div (2 * w),
                         ((2 * pos[2] + 1) * img.height) \div (2 * h)>>]])]

\* the smaller of the two, where the code takes the larger
Min(a, b) == IF a <= b THEN a ELSE b

Max(a, b) == IF a >= b THEN a ELSE b

\* lines 27-36 and 112-120: whether an img.resize call raises.  PIL refuses
\* a size with a zero in it ("height and width must be > 0"), and a source
\* without pixels is resized as its resampled says
ResizeRaises(img1, img2) ==
    /\ ~(img1.width = img2.width /\ img1.height = img2.height)
    /\ \/ Max(img1.width, img2.width) = 0
       \/ Max(img1.height, img2.height) = 0
       \/ IsEmpty(img1) /\ img1.resampled.raises
       \/ IsEmpty(img2) /\ img2.resampled.raises

\* lines 27-36 and 112-120: the pair brought to one size; resized names the
\* inputs (1, 2) that img.resize was called on
AlignedPair(img1, img2) ==
    IF img1.width = img2.width /\ img1.height = img2.height
    THEN [img1 |-> img1, img2 |-> img2, resized |-> {}]
    ELSE LET max_width  == Max(img1.width, img2.width)
             max_height == Max(img1.height, img2.height)
             r1 == ~(img1.width = max_width /\ img1.height = max_height)
             r2 == ~(img2.width = max_width /\ img2.height = max_height)
         IN  [img1 |-> IF r1 THEN Resize(img1, max_width, max_height) ELSE img1,
              img2 |-> IF r2 THEN Resize(img2, max_width, max_height) ELSE img2,
              resized |-> (IF r1 THEN {1} ELSE {}) \cup (IF r2 THEN {2} ELSE {})]

Abs(x) == IF x < 0 THEN -x ELSE x

\* arr1 - arr2 kept as uint8, without the conversion to float32 and np.abs
ChannelDiffWrapped(c1, c2) == [k \in 1..3 |-> (c1[k] - c2[k]) % 256]

\* diff = np.abs(arr1 - arr2) on float32 arrays: whole numbers 0..255, exact
ChannelDiff(c1, c2) == [k \in 1..3 |-> Abs(c1[k] - c2[k])]

\* np.mean(diff, axis=2): the float32 sum of the three channels (exact),
\* divided by 3 in float32
MeanOfSum(s) == FloatOfRatio(s, 3, Float32Bits)

\* MeanOfSum of the sums 0..765 in turn, worked out once
MeanTable == [i \in 1..766 |-> MeanOfSum(i - 1)] \o <<>>

MeanOfChannels(d) == MeanTable[d[1] + d[2] + d[3] + 1]

\* diff_gray before the threshold, for an aligned pair
DiffGray(pair) ==
    Array([pos \in Places(pair.img1.width, pair.img1.height) |->
        MeanOfChannels(ChannelDiff(pair.img1.px[pos], pair.img2.px[pos]))])

\* a float32 array element x >= 0 compared with the threshold t, a Python
\* int that numpy takes to float32 without rounding: x < t and x > t
\* x <= t, where line 49 has x < t
LessOrEqualInt(x, t) ==
    FloatTrunc(x) < t \/ (FloatTrunc(x) = t /\ FloatIsWhole(x))

LessThanInt(x, t) == FloatTrunc(x) < t

\* x >= t, where the code has x > t
GreaterOrEqualInt(x, t) == FloatTrunc(x) >= t

\* x < t, where the code has x > t
LessInsteadOfGreater(x, t) == FloatTrunc(x) < t

GreaterThanInt(x, t) ==
    FloatTrunc(x) > t \/ (FloatTrunc(x) = t /\ ~FloatIsWhole(x))

\* diff_gray[diff_gray > self.threshold] = 0, the comparison of line 49 turned
ApplyThresholdInverted(gray, t) ==
    Array([pos \in DOMAIN gray |->
              IF GreaterThanInt(gray[pos], t) THEN FloatZero ELSE gray[pos]])

\* line 49: diff_gray[diff_gray < self.threshold] = 0
ApplyThreshold(gray, t) ==
    Array([pos \in DOMAIN gray |->
              IF LessThanInt(gray[pos], t) THEN FloatZero ELSE gray[pos]])

\* diff_gray.max()
FloatMax(gray) ==
    LET values == {gray[pos] : pos \in DOMAIN gray}
    IN  CHOOSE v \in values : \A u \in values : ~FloatLess(v, u)

\* diff_gray.astype(np.uint8) alone, without the division by the maximum
ScaleToMaxMissing(v, mx) == FloatTrunc(v)

\* line 53 for one element: (v / max * 255).astype(np.uint8), max > 0
ScaleToMax(v, mx) ==
    FloatTrunc(FloatMulNat(FloatDiv(v, mx, Float32Bits), 255, Float32Bits))

\* the values diff_gray can hold for pixels of the palette
GrayValues ==
    {FloatZero} \cup {MeanOfChannels(ChannelDiff(c1, c2)) : c1, c2 \in Palette}

\* ScaleToMax of those values, worked out once
ScaleTable ==
    [k \in {k \in GrayValues \X GrayValues : k[2] # FloatZero} |->
        ScaleToMax(k[1], k[2])] @@ <<>>

\* lines 52-55: the gray array as uint8
NormalizeGray(gray) ==
    Let(FloatMax(gray), LAMBDA mx :
        IF FloatLess(FloatZero, mx)
        THEN Array([pos \in DOMAIN gray |->
                       IF <<gray[pos], mx>> \in DOMAIN ScaleTable
                       THEN ScaleTable[<<gray[pos], mx>>]
                       ELSE ScaleToMax(gray[pos], mx)])
        ELSE Array([pos \in DOMAIN gray |-> FloatTrunc(gray[pos])]))

\* lines 38-61 for an aligned pair: the PIL image returned
DiffImage(pair, t) ==
    [width |-> pair.img1.width, height |-> pair.img1.height,
     px |-> Let(DiffGray(pair), LAMBDA diff_gray :
            Let(ApplyThreshold(diff_gray, t), LAMBDA cut :
            Let(NormalizeGray(cut), LAMBDA gray8 : _apply_hot_colormap(gray8))))]

\* (x / total) * 100 in float64
Percentage(x, total) ==
    FloatMulNat(FloatOfRatio(x, total, Float64Bits), 100, Float64Bits)

\* the most pixels an aligned pair has
MaxTotal == MaxWidth * MaxHeight

\* Percentage(x, total) for total = 1..MaxTotal and x = 0..total, worked out once
PercentTable ==
    [total \in 1..MaxTotal |->
        [i \in 1..(total + 1) |-> Percentage(i - 1, total)] \o <<>>] \o <<>>

\* the count taken on the normalised gray values of calculate_diff
DiffStatsOnNormalized(pair, t) ==
    Let(NormalizeGray(DiffGray(pair)), LAMBDA gray8 :
    LET total_pixels == pair.img1.height * pair.img1.width
        diff_pixels == Cardinality({pos \in DOMAIN gray8 : gray8[pos] > t})
    IN  [total_pixels |-> total_pixels,
         diff_pixels |-> diff_pixels,
         diff_percentage |-> PercentTable[total_pixels][diff_pixels + 1],
         similarity_percentage |-> PercentTable[total_pixels][total_pixels - diff_pixels + 1]])

\* similarity_percentage worked out from diff_pixels, not from the rest
DiffStatsSameRatio(pair, t) ==
    Let(DiffGray(pair), LAMBDA gray :
    LET total_pixels == pair.img1.height * pair.img1.width
        diff_pixels == Cardinality({pos \in DOMAIN gray : GreaterThanInt(gray[pos], t)})
    IN  [total_pixels |-> total_pixels,
         diff_pixels |-> diff_pixels,
         diff_percentage |-> PercentTable[total_pixels][diff_pixels + 1],
         similarity_percentage |-> PercentTable[total_pixels][diff_pixels + 1]])

\* the float64 that is not a number: numpy's 0 / 0, which warns and goes on
NaN == [nan |-> TRUE]

\* lines 122-137 for an aligned pair: the dict returned.  Without pixels
\* total_pixels is 0, np.sum gives 0, and both percentages are 0 / 0 * 100
DiffStats(pair, t) ==
    IF IsEmpty(pair.img1)
    THEN [total_pixels |-> 0,
          diff_pixels |-> 0,
          diff_percentage |-> NaN,
          similarity_percentage |-> NaN]
    ELSE
    Let(DiffGray(pair), LAMBDA gray :
    LET total_pixels == pair.img1.height * pair.img1.width
        diff_pixels == Cardinality({pos \in DOMAIN gray : GreaterThanInt(gray[pos], t)})
    IN  [total_pixels |-> total_pixels,
         diff_pixels |-> diff_pixels,
         diff_percentage |-> PercentTable[total_pixels][diff_pixels + 1],
         similarity_percentage |-> PercentTable[total_pixels][total_pixels - diff_pixels + 1]])

(***************************************************************************)
(* The calculator and its two operations.                                  *)
(***************************************************************************)
VARIABLES
    threshold,   \* self.threshold of the ImageDiffCalculator
    img1_path,   \* the file the first path of the calls names
    img2_path,   \* the file the second path of the calls names
    call,        \* the last operation called, with its options
    ret,         \* what that call returned
    printed,     \* what that call printed, and the input whose open raised
    resized,     \* the inputs that call handed to img.resize
    diff_image,  \* self.diff_image of the CurtainComparisonWidget
    inflight,    \* per thread, the calculate_diff call it is inside of
    gray_array,  \* the argument of a direct call of _apply_hot_colormap
    colored,     \* the array that call returned
    curtain,     \* the other fields of the CurtainComparisonWidget
    gui,         \* the fields and widgets of the AppGui
    metrics,     \* a MetricsCalculationThread: its views, position and signals
    layout       \* a call of calculate_layout_options and the grid arranged

vars == <<threshold, img1_path, img2_path, call, ret, printed, resized,
          diff_image, inflight, gray_array, colored, curtain, gui, metrics, layout>>

\* the objects a specification does not have
others == <<curtain, gui, metrics, layout>>


\* line 12
DefaultThreshold == 10

\* Python's None, and a dict as the set of its <<key, value>> items
NoOptions == [given |-> FALSE, items |-> {}]

Dict(items) == [given |-> TRUE, items |-> items]

OptionsSet ==
    {NoOptions, Dict({}), Dict({<<"other", 1>>})}
        \cup {Dict({<<"threshold", t>>}) : t \in Thresholds}

\* bool(options)
Truthy(options) == options.given /\ options.items # {}

\* dict.get(key, default)
DictGet(items, key, default) ==
    IF \E kv \in items : kv[1] = key
    THEN (CHOOSE kv \in items : kv[1] = key)[2]
    ELSE default

\* whether options is a dict with the key 'threshold'
HasThreshold(options) ==
    options.given /\ \E kv \in options.items : kv[1] = "threshold"

\* options['threshold']
ThresholdOf(options) == (CHOOSE kv \in options.items : kv[1] = "threshold")[2]

\* the threads that call the calculator: 1 is the GUI thread of the widget
Threads == {1, 2}

\* a thread outside calculate_diff
Idle == [pc |-> "idle", options |-> NoOptions]

None == [kind |-> "None"]

NothingPrinted == [text |-> "", input |-> 0]

\* the first Image.open(...) that raises (lines 24-25 and 109-110), 0 if none
FirstUndecodable(f1, f2) ==
    IF ~f1.decodable THEN 1 ELSE IF ~f2.decodable THEN 2 ELSE 0

\* options.get('threshold', 10): the default taken, not the threshold held
ThresholdAfterOptionsDefault(options, current) ==
    IF Truthy(options)
    THEN DictGet(options.items, "threshold", DefaultThreshold)
    ELSE current

\* lines 19-20
ThresholdAfterOptions(options, current) ==
    IF Truthy(options) THEN DictGet(options.items, "threshold", current) ELSE current

\* lines 23-62, the body of the try with self.threshold = t: the image
\* returned, or the exception Image.open raised
TryDiff(f1, f2, t) ==
    IF FirstUndecodable(f1, f2) # 0
    THEN [kind |-> "Raised", input |-> FirstUndecodable(f1, f2)]
    ELSE IF ResizeRaises(f1.image, f2.image)
    THEN [kind |-> "Raised", input |-> 0]
    ELSE Let(AlignedPair(f1.image, f2.image), LAMBDA pair :
             IF IsEmpty(pair.img1)
             THEN \* line 52: max() of an array without elements raises
                  [kind |-> "Raised", input |-> 0]
             ELSE [kind |-> "Returned",
                   value |-> [kind |-> "Image", image |-> DiffImage(pair, t)],
                   resized |-> pair.resized])

\* lines 109-137, the body of the try with self.threshold = t
TryStats(f1, f2, t) ==
    IF FirstUndecodable(f1, f2) # 0
    THEN [kind |-> "Raised", input |-> FirstUndecodable(f1, f2)]
    ELSE IF ResizeRaises(f1.image, f2.image)
    THEN [kind |-> "Raised", input |-> 0]
    ELSE Let(AlignedPair(f1.image, f2.image), LAMBDA pair :
             [kind |-> "Returned",
              value |-> [kind |-> "Stats", stats |-> DiffStats(pair, t)],
              resized |-> pair.resized])

\* a handler that hands back an empty image where the code returns None
ExceptClauseBlank(outcome, text) ==
    IF outcome.kind = "Raised"
    THEN [ret |-> [kind |-> "Image", image |-> NoImage],
          printed |-> [text |-> text, input |-> outcome.input],
          resized |-> {}]
    ELSE [ret |-> outcome.value,
          printed |-> NothingPrinted,
          resized |-> outcome.resized]

\* no handler: the exception reaches the caller
ExceptClauseReraise(outcome, text) ==
    IF outcome.kind = "Raised"
    THEN [ret |-> [kind |-> "Raised"],
          printed |-> NothingPrinted,
          resized |-> {}]
    ELSE [ret |-> outcome.value,
          printed |-> NothingPrinted,
          resized |-> outcome.resized]

\* except Exception as e: print(...); return None.  What the call leaves
\* behind: the value returned, the line printed and the inputs resized
ExceptClause(outcome, text) ==
    IF outcome.kind = "Raised"
    THEN [ret |-> None,
          printed |-> [text |-> text, input |-> outcome.input],
          resized |-> {}]
    ELSE [ret |-> outcome.value,
          printed |-> NothingPrinted,
          resized |-> outcome.resized]

\* lines 22-66 with self.threshold = t
DiffCall(f1, f2, t) ==
    ExceptClause(TryDiff(f1, f2, t), "Error calculating image difference")

\* lines 108-141 with self.threshold = t
StatsCall(f1, f2, t) ==
    ExceptClause(TryStats(f1, f2, t), "Error calculating diff stats")

Init ==
    /\ threshold = DefaultThreshold
    /\ img1_path \in Files(BeforePalette)
    /\ img2_path \in Files(AfterPalette) \cup {img1_path}
    /\ call = [op |-> "none", options |-> NoOptions]
    /\ ret = None
    /\ printed = NothingPrinted
    /\ resized = {}
    /\ diff_image = None
    /\ inflight = [th \in Threads |-> Idle]
    /\ gray_array = <<>>
    /\ colored = <<>>
    /\ curtain = None /\ gui = None /\ metrics = None /\ layout = None

calculate_diff(options) ==
    \E t \in {ThresholdAfterOptions(options, threshold)} :
    \E out \in {DiffCall(img1_path, img2_path, t)} :
        /\ threshold' = t
        /\ call' = [op |-> "calculate_diff", options |-> options]
        /\ ret' = out.ret
        /\ printed' = out.printed
        /\ resized' = out.resized
        /\ UNCHANGED <<img1_path, img2_path, diff_image, inflight, gray_array, colored, others>>

\* the statistics taken with the threshold of the options of the call
\* before, not with self.threshold
calculate_diff_stats_last_options ==
    \E out \in {StatsCall(img1_path, img2_path,
                          IF HasThreshold(call.options)
                          THEN ThresholdOf(call.options)
                          ELSE DefaultThreshold)} :
        /\ call' = [op |-> "calculate_diff_stats", options |-> NoOptions]
        /\ ret' = out.ret
        /\ printed' = out.printed
        /\ resized' = out.resized
        /\ UNCHANGED <<threshold, img1_path, img2_path, diff_image, inflight, gray_array, colored, others>>

\* the statistics taken after self.threshold went back to the default
calculate_diff_stats_resetting ==
    \E out \in {StatsCall(img1_path, img2_path, DefaultThreshold)} :
        /\ threshold' = DefaultThreshold
        /\ call' = [op |-> "calculate_diff_stats", options |-> NoOptions]
        /\ ret' = out.ret
        /\ printed' = out.printed
        /\ resized' = out.resized
        /\ UNCHANGED <<img1_path, img2_path, diff_image, inflight, gray_array, colored, others>>

calculate_diff_stats ==
    \E out \in {StatsCall(img1_path, img2_path, threshold)} :
        /\ call' = [op |-> "calculate_diff_stats", options |-> NoOptions]
        /\ ret' = out.ret
        /\ printed' = out.printed
        /\ resized' = out.resized
        /\ UNCHANGED <<threshold, img1_path, img2_path, diff_image, inflight, gray_array, colored, others>>

Next ==
    \/ \E options \in OptionsSet : calculate_diff(options)
    \/ calculate_diff_stats

Spec == Init /\ [][Next]_vars


(***************************************************************************)
(* The two operations on degenerate inputs: files that decode to an image  *)
(* of zero width or zero height, next to one-pixel images and files that   *)
(* are no image.                                                           *)
(***************************************************************************)
InitEmpty ==
    /\ threshold = DefaultThreshold
    /\ img1_path \in EmptyFiles(BeforePalette)
    /\ img2_path \in EmptyFiles(AfterPalette)
    /\ call = [op |-> "none", options |-> NoOptions]
    /\ ret = None
    /\ printed = NothingPrinted
    /\ resized = {}
    /\ diff_image = None
    /\ inflight = [th \in Threads |-> Idle]
    /\ gray_array = <<>>
    /\ colored = <<>>
    /\ curtain = None /\ gui = None /\ metrics = None /\ layout = None

NextEmpty ==
    \/ \E options \in OptionsSet : calculate_diff(options)
    \/ calculate_diff_stats

SpecEmpty == InitEmpty /\ [][NextEmpty]_vars


(***************************************************************************)
(* The curtain widget (curtain_view.py), which owns one calculator for its *)
(* life, is handed the pair of paths by set_images and sets the threshold  *)
(* of its calculator in set_diff_threshold.  The calculator is a public    *)
(* field of the widget, so the two operations above can be called on it    *)
(* with any options in between.  The widget starts with a pair of paths    *)
(* already chosen.                                                         *)
(***************************************************************************)
\* the widest image the widget is handed
MaxWidgetWidth == 1

\* the files the widget is handed: rows of pixels, and a file that is no image
WidgetFiles(colours) ==
    {f \in Files(colours) :
        f.image.height <= 1 /\ f.image.width <= MaxWidgetWidth}

\* the thresholds callers pass: nothing in the code limits them to 0..255
WidgetThresholds == Thresholds \cup {300}

WidgetOptionsSet == OptionsSet \cup {Dict({<<"threshold", 300>>})}

InitWidget ==
    /\ threshold = DefaultThreshold
    /\ img1_path \in WidgetFiles(BeforePalette)
    /\ img2_path \in WidgetFiles(AfterPalette) \cup {img1_path}
    /\ call = [op |-> "none", options |-> NoOptions]
    /\ ret = None
    /\ printed = NothingPrinted
    /\ resized = {}
    /\ diff_image = None
    /\ inflight = [th \in Threads |-> Idle]
    /\ gray_array = <<>>
    /\ colored = <<>>
    /\ curtain = None /\ gui = None /\ metrics = None /\ layout = None

\* curtain_view.py 58-84: the paths are stored first; diff_image is reset
\* only when both files open.  The pixmaps are display state, left out
set_images(before_path, after_path) ==
    /\ img1_path' = before_path
    /\ img2_path' = after_path
    /\ call' = [op |-> "set_images", options |-> NoOptions]
    /\ ret' = None
    /\ printed' = IF FirstUndecodable(before_path, after_path) # 0
                  THEN [text |-> "Error loading images for curtain comparison",
                        input |-> FirstUndecodable(before_path, after_path)]
                  ELSE NothingPrinted
    /\ resized' = {}
    /\ diff_image' = IF FirstUndecodable(before_path, after_path) # 0
                     THEN diff_image
                     ELSE None
    /\ UNCHANGED <<threshold, inflight, gray_array, colored, others>>

\* curtain_view.py 109-114 with _calculate_diff_image (86-96): the threshold
\* is stored as given, calculate_diff is called without options and its
\* result kept in diff_image; the method itself returns None.  printed is
\* the line of the calculator
set_diff_threshold(t) ==
    \E out \in {DiffCall(img1_path, img2_path, t)} :
        /\ threshold' = t
        /\ call' = [op |-> "set_diff_threshold", options |-> NoOptions]
        /\ ret' = None
        /\ printed' = out.printed
        /\ resized' = out.resized
        /\ diff_image' = out.ret
        /\ UNCHANGED <<img1_path, img2_path, inflight, gray_array, colored, others>>

NextWidget ==
    \/ \E before_path \in WidgetFiles(BeforePalette) :
       \E after_path \in WidgetFiles(AfterPalette) \cup {before_path} :
           set_images(before_path, after_path)
    \/ \E t \in WidgetThresholds : set_diff_threshold(t)
    \/ \E options \in WidgetOptionsSet : calculate_diff(options)
    \/ calculate_diff_stats

SpecWidget == InitWidget /\ [][NextWidget]_vars

(***************************************************************************)
(* The widget driven through its own three methods only: set_images,       *)
(* toggle_diff_mode and set_diff_threshold.  It starts as                  *)
(* switch_to_curtain_mode leaves it, created and given its two paths.      *)
(***************************************************************************)
InitCurtainDiff ==
    /\ threshold = DefaultThreshold
    /\ img1_path \in WidgetFiles(BeforePalette)
    /\ img2_path \in WidgetFiles(AfterPalette) \cup {img1_path}
    /\ call = [op |-> "none", options |-> NoOptions]
    /\ ret = None
    /\ printed = NothingPrinted
    /\ resized = {}
    /\ diff_image = None
    /\ inflight = [th \in Threads |-> Idle]
    /\ gray_array = <<>>
    /\ colored = <<>>
    /\ gui = None /\ metrics = None /\ layout = None
    /\ curtain = [diff_mode |-> FALSE]

\* curtain_view.py 98-107 with _calculate_diff_image (86-96): the mode is
\* flipped, and the diff image is calculated only when the mode is entered
\* with no diff image held; the method returns the new mode
toggle_diff_mode ==
    \E out \in {DiffCall(img1_path, img2_path, threshold)} :
    \E calculates \in {~curtain.diff_mode /\ diff_image = None} :
        /\ curtain' = [curtain EXCEPT !.diff_mode = ~curtain.diff_mode]
        /\ call' = [op |-> "toggle_diff_mode", options |-> NoOptions]
        /\ ret' = [kind |-> "Bool", value |-> ~curtain.diff_mode]
        /\ printed' = IF calculates THEN out.printed ELSE NothingPrinted
        /\ resized' = IF calculates THEN out.resized ELSE {}
        /\ diff_image' = IF calculates THEN out.ret ELSE diff_image
        /\ UNCHANGED <<threshold, img1_path, img2_path, inflight, gray_array,
                       colored, gui, metrics, layout>>

NextCurtainDiff ==
    \/ \E before_path \in WidgetFiles(BeforePalette) :
       \E after_path \in WidgetFiles(AfterPalette) \cup {before_path} :
           set_images(before_path, after_path)
    \/ toggle_diff_mode
    \/ \E t \in WidgetThresholds : set_diff_threshold(t)

SpecCurtainDiff == InitCurtainDiff /\ [][NextCurtainDiff]_vars

(***************************************************************************)
(* One calculator called from several threads.  Nothing in the calculator  *)
(* locks: a calculate_diff call writes self.threshold on line 20 and reads *)
(* it again on line 49, after the files have been opened and resized, and  *)
(* other threads run in between.  A call is therefore two steps, the entry *)
(* (lines 19-20) and the rest (lines 22-66).                               *)
(***************************************************************************)
\* the options the threads call calculate_diff with
ThreadOptionsSet == {NoOptions} \cup {Dict({<<"threshold", t>>}) : t \in Thresholds}

InitThreads == InitWidget

\* lines 19-20, by thread th
enter_calculate_diff(th, options) ==
    /\ inflight[th].pc = "idle"
    /\ threshold' = ThresholdAfterOptions(options, threshold)
    /\ inflight' = [inflight EXCEPT ![th] = [pc |-> "try", options |-> options]]
    /\ UNCHANGED <<img1_path, img2_path, call, ret, printed, resized, diff_image, gray_array, colored, others>>

\* lines 22-66, by thread th: line 49 reads self.threshold as it is now
run_calculate_diff(th) ==
    /\ inflight[th].pc = "try"
    /\ \E out \in {DiffCall(img1_path, img2_path, threshold)} :
          /\ call' = [op |-> "calculate_diff", options |-> inflight[th].options]
          /\ ret' = out.ret
          /\ printed' = out.printed
          /\ resized' = out.resized
    /\ inflight' = [inflight EXCEPT ![th] = Idle]
    /\ UNCHANGED <<threshold, img1_path, img2_path, diff_image, gray_array, colored, others>>

\* curtain_view.py 111-112 and diff_calculator.py 19, by the GUI thread: the
\* threshold is stored and calculate_diff entered without options
enter_set_diff_threshold(t) ==
    /\ inflight[1].pc = "idle"
    /\ threshold' = t
    /\ inflight' = [inflight EXCEPT ![1] = [pc |-> "widget", options |-> NoOptions]]
    /\ UNCHANGED <<img1_path, img2_path, call, ret, printed, resized, diff_image, gray_array, colored, others>>

\* diff_calculator.py 22-66 and curtain_view.py 91-114, by the GUI thread
run_set_diff_threshold ==
    /\ inflight[1].pc = "widget"
    /\ \E out \in {DiffCall(img1_path, img2_path, threshold)} :
          /\ call' = [op |-> "set_diff_threshold", options |-> NoOptions]
          /\ ret' = None
          /\ printed' = out.printed
          /\ resized' = out.resized
          /\ diff_image' = out.ret
    /\ inflight' = [inflight EXCEPT ![1] = Idle]
    /\ UNCHANGED <<threshold, img1_path, img2_path, gray_array, colored, others>>

NextThreads ==
    \/ \E th \in Threads : \E options \in ThreadOptionsSet :
           enter_calculate_diff(th, options)
    \/ \E th \in Threads : run_calculate_diff(th)
    \/ \E t \in Thresholds : enter_set_diff_threshold(t)
    \/ run_set_diff_threshold

SpecThreads == InitThreads /\ [][NextThreads]_vars

(***************************************************************************)
(* _apply_hot_colormap called on its own, on a synthetic gray array of one *)
(* pixel holding any of the uint8 values.                                  *)
(***************************************************************************)
GrayLevels == 0..255

InitColormap ==
    /\ threshold = DefaultThreshold
    /\ img1_path = NotAnImage
    /\ img2_path = NotAnImage
    /\ call = [op |-> "none", options |-> NoOptions]
    /\ ret = None
    /\ printed = NothingPrinted
    /\ resized = {}
    /\ diff_image = None
    /\ inflight = [th \in Threads |-> Idle]
    /\ gray_array \in [Places(1, 1) -> GrayLevels]
    /\ colored = <<>>
    /\ curtain = None /\ gui = None /\ metrics = None /\ layout = None

\* lines 68-101 on gray_array
call_apply_hot_colormap ==
    /\ colored' = _apply_hot_colormap(gray_array)
    /\ call' = [op |-> "_apply_hot_colormap", options |-> NoOptions]
    /\ UNCHANGED <<threshold, img1_path, img2_path, ret, printed, resized,
                   diff_image, inflight, gray_array, others>>

NextColormap == call_apply_hot_colormap

SpecColormap == InitColormap /\ [][NextColormap]_vars

(***************************************************************************)
(* The main window (app_gui.py).  An AppGui is the record of its fields    *)
(* and of the state of its widgets; each method is the function from the   *)
(* AppGui before the call to the AppGui after it, and each action is one   *)
(* event of the user on a widget that is enabled, running the slot         *)
(* connected to it to its end.  A panel (GraphicsView) is an object: it    *)
(* has an id, and image_views holds the id with the url of its image_view. *)
(* Message boxes and printed lines are not kept.                           *)
(***************************************************************************)
\* the most panels the user adds
MaxPanels == 3

\* self.diff_panel = None
NoPanel == 0

\* image_view.url of a panel nothing was loaded into
NoUrl == [name |-> "", decodable |-> FALSE]

\* the image file the user drops on a panel; the folders bring the others
Paths == {[name |-> "a", decodable |-> TRUE]}

\* the pseudo url of the difference panel (line 633)
DiffUrl == [name |-> "diff_2", decodable |-> FALSE]

\* the file a path names
FileOf(path) ==
    IF path.decodable
    THEN [decodable |-> TRUE,
          image |-> [width |-> 1, height |-> 1,
                     px |-> Array([pos \in Places(1, 1) |-> <<0, 0, 0>>])]]
    ELSE NotAnImage

\* the folders the dialog offers, each with its image files sorted by name
\* (lines 900-913); "" is the dialog cancelled
FolderImages(folder_path) ==
    CASE folder_path = "two"    -> <<[name |-> "a", decodable |-> TRUE],
                                     [name |-> "b", decodable |-> TRUE]>>
      [] folder_path = "single" -> <<[name |-> "c", decodable |-> FALSE]>>
      [] OTHER -> <<>>

Folders == {"two", "single", "empty"}

\* int(math.sqrt(n))
IntSqrt(n) == CHOOSE r \in 0..n : r * r <= n /\ (r + 1) * (r + 1) > n

\* math.ceil(n / rows)
CeilDiv(n, rows) == (n + rows - 1) \div rows

\* whether x is one of the elements of seq
InSeq(x, seq) == \E i \in 1..Len(seq) : seq[i] = x

\* lines 248-251
DivisorPairs(num_panels) ==
    SelectSeq([rows \in 1..num_panels |-> <<rows, num_panels \div rows>>],
              LAMBDA o : num_panels % o[1] = 0)

\* lines 258-260 for one value of rows
WithPractical(options, num_panels, rows) ==
    LET cols == CeilDiv(num_panels, rows)
    IN  IF rows * cols >= num_panels /\ ~InSeq(<<rows, cols>>, options)
        THEN Append(options, <<rows, cols>>)
        ELSE options

\* abs(x[0] - x[1]), the key of the sort on line 263
AspectKey(o) == Abs(o[1] - o[2])

\* the options left in the order they were built in
NotSorted(options) == options

\* list.sort(key=...): the sort is stable
RECURSIVE SortByAspect(_)
SortByAspect(options) ==
    IF Len(options) <= 1 THEN options
    ELSE LET front == SortByAspect(SubSeq(options, 1, Len(options) - 1))
             x == options[Len(options)]
             k == Cardinality({i \in 1..Len(front) : AspectKey(front[i]) <= AspectKey(x)})
         IN  SubSeq(front, 1, k) \o <<x>> \o SubSeq(front, k + 1, Len(front))

\* lines 240-265
calculate_layout_options(num_panels) ==
    IF num_panels <= 0 THEN <<>>
    ELSE LET divisors == DivisorPairs(num_panels)
             sqrt_n == IntSqrt(num_panels)
         IN  SortByAspect(
                IF Len(divisors) = 2
                THEN WithPractical(WithPractical(divisors, num_panels, sqrt_n),
                                   num_panels, sqrt_n + 1)
                ELSE divisors)

\* the table of calculate_layout_options for the panel counts of the window
LayoutTable == [n \in 1..(MaxPanels + 2) |-> calculate_layout_options(n)]

\* lines 91-105 and 111-163, 237-238: the AppGui __init__ leaves.  A check
\* box is its checked and its enabled state, a button its enabled state
InitialGui ==
    [image_views |-> <<>>,
     curtain_widget |-> None,
     is_curtain_mode |-> FALSE,
     is_folder_mode |-> FALSE,
     folder_left_path |-> "",
     folder_right_path |-> "",
     folder_image_list |-> <<>>,
     current_folder_index |-> 0,
     loading_images |-> FALSE,
     folder_mode_checkbox |-> [checked |-> FALSE, enabled |-> TRUE],
     select_folder_left_button |-> FALSE,
     select_folder_right_button |-> FALSE,
     prev_button |-> FALSE,
     next_button |-> FALSE,
     image_counter_label |-> <<0, 0>>,
     layout_combo |-> [items |-> <<>>, index |-> -1, enabled |-> TRUE],
     curtain_checkbox |-> [checked |-> FALSE, enabled |-> TRUE],
     diff_checkbox |-> [checked |-> FALSE, enabled |-> FALSE],
     add_button |-> TRUE,
     remove_button |-> TRUE,
     grid |-> <<>>,
     stretch |-> <<0, 0>>,
     diff_panel |-> NoPanel,
     is_showing_diff_panel |-> FALSE]

PanelIds(views) == {views[i].id : i \in 1..Len(views)}

\* a new object: an id no panel of the window has
NewPanel(g) ==
    CHOOSE id \in 1..(2 * MaxPanels + 4) :
        /\ id \notin PanelIds(g.image_views) \cup DOMAIN g.grid \cup {g.diff_panel}
        /\ \A other \in 1..(id - 1) :
              other \in PanelIds(g.image_views) \cup DOMAIN g.grid \cup {g.diff_panel}

\* [view for view in self.image_views if view != self.diff_panel]
non_diff_panels(g) == SelectSeq(g.image_views, LAMBDA view : view.id # g.diff_panel)

\* list.remove(view)
RemovePanel(views, id) == SelectSeq(views, LAMBDA view : view.id # id)

\* image_view.url is set: a url that is not None and not empty
Loaded(url) == url.name # ""

\* self.layout_combo.currentData() is set
HasCurrentData(g) == g.layout_combo.index >= 0

currentData(g) == g.layout_combo.items[g.layout_combo.index + 1]

\* lines 302-326: the layout is emptied and every panel of image_views is
\* put at row i // cols and column i % cols
arrange_panels_in_grid(g, rows, cols) ==
    [g EXCEPT
        !.grid = Array([id \in PanelIds(g.image_views) |->
                    LET i == (CHOOSE k \in 1..Len(g.image_views) :
                                  g.image_views[k].id = id) - 1
                    IN  <<i \div cols, i % cols>>]),
        !.stretch = <<rows, cols>>]

\* lines 294-300, the slot of layout_combo.currentTextChanged
change_panel_layout(g) ==
    IF ~HasCurrentData(g) THEN g
    ELSE arrange_panels_in_grid(g, currentData(g)[1], currentData(g)[2])

\* the index of the 1 x n option (lines 278-282), counted from 0
HorizontalIndex(options) ==
    IF \E i \in 1..Len(options) : options[i][1] = 1
    THEN (CHOOSE i \in 1..Len(options) :
            /\ options[i][1] = 1
            /\ \A j \in (i + 1)..Len(options) : options[j][1] # 1) - 1
    ELSE 0

\* lines 267-292.  Emptying and refilling the combo changes its current
\* text, so the combo runs change_panel_layout, the last time with the
\* option that is current in the end
update_layout_combo(g) ==
    IF Len(g.image_views) = 0
    THEN [g EXCEPT !.layout_combo.items = <<>>, !.layout_combo.index = -1]
    ELSE Let(LayoutTable[Len(g.image_views)], LAMBDA options :
             change_panel_layout(
                [g EXCEPT !.layout_combo.items = options,
                          !.layout_combo.index = HorizontalIndex(options)]))

\* lines 683-727
remove_diff_panel(g) ==
    IF ~g.is_showing_diff_panel \/ g.diff_panel = NoPanel THEN g
    ELSE IF g.diff_panel \notin PanelIds(g.image_views) THEN g
    ELSE Let(update_layout_combo(
                [g EXCEPT !.image_views = RemovePanel(g.image_views, g.diff_panel),
                          !.diff_panel = NoPanel,
                          !.is_showing_diff_panel = FALSE]), LAMBDA g1 :
             IF Len(g1.image_views) > 0 /\ Len(g1.layout_combo.items) > 0
             THEN arrange_panels_in_grid(g1, g1.layout_combo.items[1][1],
                                             g1.layout_combo.items[1][2])
             ELSE g1)

\* diff_checkbox.setChecked(False) between blockSignals(True) and (False)
UncheckDiffBlocked(g) == [g EXCEPT !.diff_checkbox.checked = FALSE]

\* lines 589-681; what calculate_diff returns is that of a new calculator
\* on the files the two urls name
add_diff_panel(g) ==
    IF g.is_showing_diff_panel \/ Len(g.image_views) # 2 THEN g
    ELSE IF ~Loaded(g.image_views[1].url) \/ ~Loaded(g.image_views[2].url)
    THEN UncheckDiffBlocked(g)
    ELSE IF DiffCall(FileOf(g.image_views[1].url), FileOf(g.image_views[2].url),
                     DefaultThreshold).ret = None
    THEN UncheckDiffBlocked(g)
    ELSE Let(NewPanel(g), LAMBDA id :
         Let(update_layout_combo(
                [g EXCEPT !.image_views = Append(g.image_views, [id |-> id, url |-> DiffUrl]),
                          !.diff_panel = id,
                          !.is_showing_diff_panel = TRUE]), LAMBDA g1 :
             IF Len(g1.layout_combo.items) = 0 THEN g1
             ELSE IF InSeq(<<1, 3>>, g1.layout_combo.items)
             THEN arrange_panels_in_grid(
                    [g1 EXCEPT !.layout_combo.index =
                        (CHOOSE i \in 1..Len(g1.layout_combo.items) :
                            /\ g1.layout_combo.items[i] = <<1, 3>>
                            /\ \A j \in 1..(i - 1) : g1.layout_combo.items[j] # <<1, 3>>) - 1],
                    1, 3)
             ELSE arrange_panels_in_grid(g1, g1.layout_combo.items[1][1],
                                             g1.layout_combo.items[1][2])))

\* lines 573-587, the slot of diff_checkbox.stateChanged
toggle_diff_panel(g, state) ==
    IF state = 2
    THEN IF Len(g.image_views) = 2 THEN add_diff_panel(g) ELSE UncheckDiffBlocked(g)
    ELSE remove_diff_panel(g)

\* diff_checkbox.setChecked(False) with the signals on: stateChanged is
\* emitted when the state changes, and its slot, toggle_diff_panel, runs
\* with Qt.Unchecked, which is remove_diff_panel
UncheckDiff(g) ==
    IF g.diff_checkbox.checked
    THEN remove_diff_panel([g EXCEPT !.diff_checkbox.checked = FALSE])
    ELSE g

\* the check box enabled or disabled, the diff panel left where it is
update_diff_availability_keeping(g) ==
    IF g.is_curtain_mode
    THEN [g EXCEPT !.diff_checkbox.enabled = FALSE]
    ELSE [g EXCEPT !.diff_checkbox.enabled = (Len(non_diff_panels(g)) = 2)]

\* lines 814-830
update_diff_availability(g) ==
    IF g.is_curtain_mode
    THEN [g EXCEPT !.diff_checkbox.enabled = FALSE]
    ELSE Let(Len(non_diff_panels(g)) = 2, LAMBDA has_exactly_two :
             IF ~has_exactly_two /\ g.is_showing_diff_panel
             THEN remove_diff_panel(
                    [g EXCEPT !.diff_checkbox.enabled = has_exactly_two,
                              !.diff_checkbox.checked = FALSE])
             ELSE [g EXCEPT !.diff_checkbox.enabled = has_exactly_two])

\* lines 766-789
switch_to_grid_mode(g) ==
    Let(IF HasCurrentData(g)
        THEN arrange_panels_in_grid(
                [g EXCEPT !.is_curtain_mode = FALSE, !.curtain_widget = None],
                currentData(g)[1], currentData(g)[2])
        ELSE [g EXCEPT !.is_curtain_mode = FALSE, !.curtain_widget = None], LAMBDA g1 :
    Let(UncheckDiff(g1), LAMBDA g2 :
        update_diff_availability(
            [g2 EXCEPT !.layout_combo.enabled = TRUE,
                       !.add_button = TRUE,
                       !.remove_button = TRUE])))

\* lines 744-752: the new CurtainComparisonWidget, with the paths set_images
\* was handed when both panels have a url
NewCurtainWidget(g) ==
    IF Len(g.image_views) >= 2
       /\ Loaded(g.image_views[1].url) /\ Loaded(g.image_views[2].url)
    THEN [kind |-> "CurtainComparisonWidget",
          before_path |-> g.image_views[1].url,
          after_path |-> g.image_views[2].url]
    ELSE [kind |-> "CurtainComparisonWidget",
          before_path |-> NoUrl,
          after_path |-> NoUrl]

\* lines 729-764
switch_to_curtain_mode(g) ==
    Let(IF g.is_showing_diff_panel
        THEN remove_diff_panel(UncheckDiffBlocked(g))
        ELSE g, LAMBDA g1 :
    IF Len(g1.image_views) # 2 THEN g1
    ELSE Let([g1 EXCEPT !.is_curtain_mode = TRUE,
                        !.curtain_widget = NewCurtainWidget(g1),
                        !.diff_checkbox.enabled = FALSE], LAMBDA g2 :
         Let(UncheckDiff(g2), LAMBDA g3 :
             [g3 EXCEPT !.layout_combo.enabled = FALSE,
                        !.add_button = FALSE,
                        !.remove_button = FALSE])))

\* lines 791-812
update_curtain_availability(g) ==
    IF g.loading_images THEN g
    ELSE Let(Len(non_diff_panels(g)) = 2, LAMBDA has_exactly_two :
         Let([g EXCEPT !.curtain_checkbox.enabled = has_exactly_two], LAMBDA g1 :
             update_diff_availability(
                IF ~has_exactly_two /\ g1.is_curtain_mode
                THEN switch_to_grid_mode([g1 EXCEPT !.curtain_checkbox.checked = FALSE])
                ELSE IF has_exactly_two /\ g1.curtain_checkbox.checked
                THEN switch_to_curtain_mode(g1)
                ELSE g1)))

\* lines 328-352: the new panel is put first
add_image_view(g) ==
    Let(NewPanel(g), LAMBDA id :
    Let(update_curtain_availability(update_layout_combo(
            [g EXCEPT !.image_views = <<[id |-> id, url |-> NoUrl]>> \o g.image_views])),
        LAMBDA g1 :
            IF ~g1.is_curtain_mode /\ HasCurrentData(g1)
            THEN arrange_panels_in_grid(g1, currentData(g1)[1], currentData(g1)[2])
            ELSE g1))

\* the grid without the item of a panel: image_views_layout.removeItem(view)
RemoveItem(grid, id) == Array([k \in DOMAIN grid \ {id} |-> grid[k]])

\* lines 476-509
remove_image_view(g) ==
    IF Len(g.image_views) = 0 THEN g
    ELSE IF Len(g.image_views) = 1 /\ g.is_showing_diff_panel THEN g
    ELSE IF Len(non_diff_panels(g)) = 1 /\ g.is_showing_diff_panel
    THEN remove_diff_panel(UncheckDiffBlocked(g))
    ELSE Let(IF Len(non_diff_panels(g)) > 0
             THEN [g EXCEPT !.image_views = RemovePanel(g.image_views, non_diff_panels(g)[1].id),
                            !.grid = RemoveItem(g.grid, non_diff_panels(g)[1].id)]
             ELSE g, LAMBDA g1 :
         Let(update_layout_combo(g1), LAMBDA g2 :
             update_curtain_availability(
                IF ~g2.is_curtain_mode /\ HasCurrentData(g2)
                THEN arrange_panels_in_grid(g2, currentData(g2)[1], currentData(g2)[2])
                ELSE g2)))

\* lines 553-571, the slot of curtain_checkbox.stateChanged
toggle_curtain_mode(g, state) ==
    IF state = 2
    THEN IF Len(g.image_views) = 2
         THEN switch_to_curtain_mode(g)
         ELSE [g EXCEPT !.curtain_checkbox.checked = FALSE]
    ELSE switch_to_grid_mode(g)

\* lines 1049-1064
clear_all_images(g) ==
    [g EXCEPT !.grid = <<>>,
              !.image_views = <<>>,
              !.is_showing_diff_panel = FALSE,
              !.diff_panel = NoPanel]

\* lines 1040-1047: "current / total"
update_image_counter(g) ==
    [g EXCEPT !.image_counter_label =
        IF Len(g.folder_image_list) > 0
        THEN <<g.current_folder_index + 1, Len(g.folder_image_list)>>
        ELSE <<0, 0>>]

\* lines 1031-1038
update_navigation_buttons(g) ==
    [g EXCEPT
        !.prev_button = Len(g.folder_image_list) > 0 /\ g.current_folder_index > 0,
        !.next_button = /\ Len(g.folder_image_list) > 0
                        /\ g.current_folder_index < Len(g.folder_image_list) - 1]

\* image_view.loadImage(path) on the panel at place i of image_views: the
\* image_view keeps the path as its url
loadImage(g, i, path) == [g EXCEPT !.image_views[i].url = path]

\* lines 956-1006
load_current_folder_images(g) ==
    IF Len(g.folder_image_list) = 0
       \/ g.current_folder_index >= Len(g.folder_image_list)
    THEN g
    ELSE Let(g.folder_image_list[g.current_folder_index + 1], LAMBDA pair :
         Let(g.is_curtain_mode, LAMBDA was_in_curtain_mode :
         Let(add_image_view(add_image_view(
                clear_all_images([g EXCEPT !.loading_images = TRUE]))), LAMBDA g1 :
         Let(IF Len(g1.image_views) >= 2
             THEN loadImage(loadImage(g1, 1, pair[1]), 2, pair[2])
             ELSE g1, LAMBDA g2 :
         Let([g2 EXCEPT !.loading_images = FALSE,
                        !.curtain_checkbox.enabled = TRUE], LAMBDA g3 :
             IF was_in_curtain_mode
             THEN switch_to_curtain_mode([g3 EXCEPT !.curtain_checkbox.checked = TRUE])
             ELSE arrange_panels_in_grid(g3, 1, 2))))))

\* lines 933-954: the files of the two folders paired by name, or by place
\* when no name is in both
match_images(left_images, right_images) ==
    LET common == {left_images[i].name : i \in 1..Len(left_images)}
                    \cap {right_images[i].name : i \in 1..Len(right_images)}
        RightOf(name) == right_images[CHOOSE i \in 1..Len(right_images) :
                                          right_images[i].name = name]
        by_name == SelectSeq(left_images, LAMBDA img : img.name \in common)
        min_count == Min(Len(left_images), Len(right_images))
    IN  IF common # {}
        THEN [i \in 1..Len(by_name) |-> <<by_name[i], RightOf(by_name[i].name)>>]
        ELSE [i \in 1..min_count |-> <<left_images[i], right_images[i]>>]

\* lines 894-931
check_folders_and_load(g) ==
    IF g.folder_left_path = "" \/ g.folder_right_path = "" THEN g
    ELSE Let(FolderImages(g.folder_left_path), LAMBDA left_images :
         Let(FolderImages(g.folder_right_path), LAMBDA right_images :
             IF Len(left_images) = 0 \/ Len(right_images) = 0 THEN g
             ELSE Let([g EXCEPT !.folder_image_list =
                            match_images(left_images, right_images)], LAMBDA g1 :
                  IF Len(g1.folder_image_list) = 0 THEN g1
                  ELSE update_image_counter(update_navigation_buttons(
                        load_current_folder_images(
                            [g1 EXCEPT !.current_folder_index = 0]))))))

\* lines 872-881; folder_path is what the dialog returned
select_left_folder(g, folder_path) ==
    IF folder_path = "" THEN g
    ELSE check_folders_and_load([g EXCEPT !.folder_left_path = folder_path])

\* lines 883-892
select_right_folder(g, folder_path) ==
    IF folder_path = "" THEN g
    ELSE check_folders_and_load([g EXCEPT !.folder_right_path = folder_path])

\* lines 833-870, the slot of folder_mode_checkbox.stateChanged
toggle_folder_mode(g, state) ==
    IF state = 2
    THEN clear_all_images(
            [g EXCEPT !.is_folder_mode = TRUE,
                      !.select_folder_left_button = TRUE,
                      !.select_folder_right_button = TRUE,
                      !.curtain_checkbox.enabled = FALSE,
                      !.add_button = FALSE,
                      !.remove_button = FALSE,
                      !.layout_combo.enabled = FALSE])
    ELSE update_curtain_availability(update_image_counter(
            [g EXCEPT !.is_folder_mode = FALSE,
                      !.select_folder_left_button = FALSE,
                      !.select_folder_right_button = FALSE,
                      !.prev_button = FALSE,
                      !.next_button = FALSE,
                      !.add_button = TRUE,
                      !.remove_button = TRUE,
                      !.layout_combo.enabled = TRUE,
                      !.folder_left_path = "",
                      !.folder_right_path = "",
                      !.folder_image_list = <<>>,
                      !.current_folder_index = 0]))

\* lines 1015-1021
navigate_previous(g) ==
    IF g.current_folder_index > 0
    THEN update_image_counter(update_navigation_buttons(load_current_folder_images(
            [g EXCEPT !.current_folder_index = g.current_folder_index - 1])))
    ELSE g

\* the index raised up to the length of the list, one past its last place
navigate_next_past_end(g) ==
    IF g.current_folder_index < Len(g.folder_image_list)
    THEN update_image_counter(update_navigation_buttons(load_current_folder_images(
            [g EXCEPT !.current_folder_index = g.current_folder_index + 1])))
    ELSE g

\* lines 1023-1029
navigate_next(g) ==
    IF g.current_folder_index < Len(g.folder_image_list) - 1
    THEN update_image_counter(update_navigation_buttons(load_current_folder_images(
            [g EXCEPT !.current_folder_index = g.current_folder_index + 1])))
    ELSE g

\* the keys the window tells apart: "Left" is Qt.Key_Left or Qt.Key_A,
\* "Right" is Qt.Key_Right or Qt.Key_D
Keys == {"Left", "Right", "Home", "End", "Other"}

\* lines 1090-1106
keyPressEvent(g, key) ==
    IF ~(g.is_folder_mode /\ Len(g.folder_image_list) > 0) THEN g
    ELSE CASE key = "Left"  -> navigate_previous(g)
           [] key = "Right" -> navigate_next(g)
           [] key = "Home" ->
                update_image_counter(update_navigation_buttons(
                    load_current_folder_images([g EXCEPT !.current_folder_index = 0])))
           [] key = "End" ->
                update_image_counter(update_navigation_buttons(
                    load_current_folder_images(
                        [g EXCEPT !.current_folder_index = Len(g.folder_image_list) - 1])))
           [] OTHER -> g

\* Qt.Checked (2) or Qt.Unchecked (0), as stateChanged hands it to the slot
StateOf(checked) == IF checked THEN 2 ELSE 0

\* an event of the user: the AppGui after its slot, and the other objects
\* untouched
GuiEvent(op, key, after) ==
    /\ gui' = after
    /\ call' = [op |-> op, options |-> NoOptions, key |-> key]
    /\ UNCHANGED <<threshold, img1_path, img2_path, ret, printed, resized,
                   diff_image, inflight, gray_array, colored, curtain, metrics, layout>>

InitGui ==
    /\ threshold = DefaultThreshold
    /\ img1_path = NotAnImage
    /\ img2_path = NotAnImage
    /\ call = [op |-> "none", options |-> NoOptions]
    /\ ret = None
    /\ printed = NothingPrinted
    /\ resized = {}
    /\ diff_image = None
    /\ inflight = [th \in Threads |-> Idle]
    /\ gray_array = <<>>
    /\ colored = <<>>
    /\ curtain = None /\ metrics = None /\ layout = None
    /\ gui = InitialGui

\* add_button.pressed (line 197)
add_button_pressed ==
    /\ gui.add_button
    /\ Len(non_diff_panels(gui)) < MaxPanels
    /\ GuiEvent("add_image_view", "", add_image_view(gui))

\* remove_button.pressed (line 192)
remove_button_pressed ==
    /\ gui.remove_button
    /\ GuiEvent("remove_image_view", "", remove_image_view(gui))

\* a click on the curtain check box (line 148)
curtain_checkbox_clicked ==
    /\ gui.curtain_checkbox.enabled
    /\ GuiEvent("toggle_curtain_mode", "",
                toggle_curtain_mode(
                    [gui EXCEPT !.curtain_checkbox.checked = ~gui.curtain_checkbox.checked],
                    StateOf(~gui.curtain_checkbox.checked)))

\* a click on the difference check box (line 154)
diff_checkbox_clicked ==
    /\ gui.diff_checkbox.enabled
    /\ GuiEvent("toggle_diff_panel", "",
                toggle_diff_panel(
                    [gui EXCEPT !.diff_checkbox.checked = ~gui.diff_checkbox.checked],
                    StateOf(~gui.diff_checkbox.checked)))

\* a click on the folder mode check box (line 113)
folder_mode_checkbox_clicked ==
    /\ gui.folder_mode_checkbox.enabled
    /\ GuiEvent("toggle_folder_mode", "",
                toggle_folder_mode(
                    [gui EXCEPT !.folder_mode_checkbox.checked = ~gui.folder_mode_checkbox.checked],
                    StateOf(~gui.folder_mode_checkbox.checked)))

\* select_folder_left_button.clicked (line 116)
select_folder_left_button_clicked(folder_path) ==
    /\ gui.select_folder_left_button
    /\ GuiEvent("select_left_folder", "", select_left_folder(gui, folder_path))

\* select_folder_right_button.clicked (line 120)
select_folder_right_button_clicked(folder_path) ==
    /\ gui.select_folder_right_button
    /\ GuiEvent("select_right_folder", "", select_right_folder(gui, folder_path))

\* prev_button.clicked (line 124)
prev_button_clicked ==
    /\ gui.prev_button
    /\ GuiEvent("navigate_previous", "", navigate_previous(gui))

\* next_button.clicked (line 128)
next_button_clicked ==
    /\ gui.next_button
    /\ GuiEvent("navigate_next", "", navigate_next(gui))

\* a key pressed in the window (main.py lines 48-51)
key_pressed(key) ==
    /\ key \in Keys
    /\ GuiEvent("keyPressEvent", key, keyPressEvent(gui, key))

\* another entry of the layout combo chosen (line 143)
layout_combo_activated(i) ==
    /\ gui.layout_combo.enabled
    /\ i \in 0..(Len(gui.layout_combo.items) - 1)
    /\ i # gui.layout_combo.index
    /\ GuiEvent("change_panel_layout", "",
                change_panel_layout([gui EXCEPT !.layout_combo.index = i]))

\* an image file dropped on a panel of the grid
image_dropped(i, path) ==
    /\ ~gui.is_curtain_mode
    /\ i \in 1..Len(gui.image_views)
    /\ gui.image_views[i].id # gui.diff_panel
    /\ GuiEvent("loadImage", "", loadImage(gui, i, path))

NextGui ==
    \/ add_button_pressed
    \/ remove_button_pressed
    \/ curtain_checkbox_clicked
    \/ diff_checkbox_clicked
    \/ folder_mode_checkbox_clicked
    \/ \E folder_path \in Folders \cup {""} : select_folder_left_button_clicked(folder_path)
    \/ \E folder_path \in Folders \cup {""} : select_folder_right_button_clicked(folder_path)
    \/ prev_button_clicked
    \/ next_button_clicked
    \/ \E key \in Keys : key_pressed(key)
    \/ \E i \in 0..(MaxPanels + 2) : layout_combo_activated(i)
    \/ \E i \in 1..(MaxPanels + 1), path \in Paths : image_dropped(i, path)

SpecGui == InitGui /\ [][NextGui]_vars

(***************************************************************************)
(* Python floats: signed binary floating point of 53 bits.  A number is    *)
(* [neg, m, e]: its sign and, as above, the bits of its significand and    *)
(* the weight of the first of them.  Zero is kept without a sign: -0.0 and *)
(* 0.0 are equal in every comparison the widget makes.  Whole numbers are  *)
(* worked on in limbs of 15 bits, least significant limb first.            *)
(***************************************************************************)
DZero == [neg |-> FALSE, m |-> <<>>, e |-> 0]

\* the float of sign neg and of magnitude f
Signed(neg, f) ==
    Let(f, LAMBDA v : IF v.m = <<>> THEN DZero ELSE [neg |-> neg, m |-> v.m, e |-> v.e])

\* the magnitude of x
Magnitude(x) == [m |-> x.m, e |-> x.e]

\* float(n) of an integer n
DOfInt(n) == Signed(n < 0, FloatOfNat(Abs(n), Float64Bits))

\* the float a decimal literal n/d stands for
DOfRatio(n, d) == Signed(FALSE, FloatOfRatio(n, d, Float64Bits))

\* the bit string b without the zeros above its last 1
StripZeros(b) ==
    IF \A j \in 1..Len(b) : b[j] = 0 THEN <<>>
    ELSE SubSeq(b, 1, CHOOSE j \in 1..Len(b) :
                          b[j] = 1 /\ \A k \in (j + 1)..Len(b) : b[k] = 0)

\* bits (last bit 1) of weight 2^e, with a nonzero rest below them when
\* sticky, rounded to 53 bits, to nearest and ties to even
RoundToDouble(bits, e, sticky) ==
    Let(bits, LAMBDA b :
        IF Len(b) <= Float64Bits
        THEN [m |-> Zeros(Float64Bits - Len(b)) \o b, e |-> e - (Float64Bits - Len(b))]
        ELSE Let(Len(b) - Float64Bits, LAMBDA drop :
             Let(SubSeq(b, drop + 1, Len(b)), LAMBDA kept :
                 IF ~(b[drop] = 1 /\ (sticky \/ kept[1] = 1
                                              \/ \E i \in 1..(drop - 1) : b[i] = 1))
                 THEN [m |-> kept, e |-> e + drop]
                 ELSE IF \A i \in 1..Float64Bits : kept[i] = 1
                 THEN [m |-> Zeros(Float64Bits - 1) \o <<1>>, e |-> e + drop + 1]
                 ELSE Let(CHOOSE i \in 1..Float64Bits :
                              kept[i] = 0 /\ \A k \in 1..(i - 1) : kept[k] = 1,
                          LAMBDA z :
                          [m |-> [i \in 1..Float64Bits |->
                                     IF i < z THEN 0 ELSE IF i = z THEN 1 ELSE kept[i]]
                                 @@ <<>>,
                           e |-> e + drop]))))

\* the whole number of the bits i..j of b, at most 27 of them
NatOfBits(b, i, j) ==
    IF j - i < 14 THEN BitsToNat(SubSeq(b, i, j))
    ELSE BitsToNat(SubSeq(b, i, i + 13)) + 16384 * BitsToNat(SubSeq(b, i + 14, j))

\* a bit string as limbs, and limbs as a bit string
LimbsOfBits(b) ==
    [i \in 1..((Len(b) + 14) \div 15) |->
        NatOfBits(b, 15 * (i - 1) + 1, Min(15 * i, Len(b)))] @@ <<>>

\* 2^0 .. 2^14
LimbPowers == [k \in 1..15 |-> Pow2(k - 1)] @@ <<>>

BitsOfLimbs(a) ==
    Let([j \in 1..(15 * Len(a)) |->
            (a[(j - 1) \div 15 + 1] \div LimbPowers[((j - 1) % 15) + 1]) % 2] @@ <<>>,
        LAMBDA bits : StripZeros(bits))

RECURSIVE AddLimbs(_, _, _)
AddLimbs(a, b, carry) ==
    IF a = <<>> /\ b = <<>> THEN (IF carry = 0 THEN <<>> ELSE <<carry>>)
    ELSE LET x == IF a = <<>> THEN 0 ELSE a[1]
             y == IF b = <<>> THEN 0 ELSE b[1]
             v == x + y + carry
         IN  <<v % 32768>> \o AddLimbs(IF a = <<>> THEN a ELSE Tail(a),
                                       IF b = <<>> THEN b ELSE Tail(b), v \div 32768)

\* a - b - borrow for a >= b + borrow
RECURSIVE SubLimbs(_, _, _)
SubLimbs(a, b, borrow) ==
    IF a = <<>> THEN <<>>
    ELSE LET y == IF b = <<>> THEN 0 ELSE b[1]
             v == a[1] - y - borrow
         IN  <<v % 32768>> \o SubLimbs(Tail(a), IF b = <<>> THEN b ELSE Tail(b),
                                       IF v < 0 THEN 1 ELSE 0)

\* a * k + carry for a limb k
RECURSIVE MulLimb(_, _, _)
MulLimb(a, k, carry) ==
    IF a = <<>> THEN (IF carry = 0 THEN <<>> ELSE <<carry>>)
    ELSE LET v == a[1] * k + carry
         IN  <<v % 32768>> \o MulLimb(Tail(a), k, v \div 32768)

RECURSIVE MulLimbs(_, _)
MulLimbs(a, b) ==
    IF b = <<>> THEN <<>>
    ELSE AddLimbs(MulLimb(a, b[1], 0), <<0>> \o MulLimbs(a, Tail(b)), 0)

\* |x| * |y| rounded
MulMagnitude(x, y) ==
    IF x.m = <<>> \/ y.m = <<>> THEN FloatZero
    ELSE Let(LimbsOfBits(x.m), LAMBDA a :
         Let(LimbsOfBits(y.m), LAMBDA b :
         Let(MulLimbs(a, b), LAMBDA limbs :
         Let(BitsOfLimbs(limbs), LAMBDA product :
             RoundToDouble(product, x.e + y.e, FALSE)))))

\* a significand as a high part and a low part of 27 bits
Halves(b) == [h |-> NatOfBits(b, 28, Len(b)), l |-> NatOfBits(b, 1, 27)]

HalvesGeq(r, d) == r.h > d.h \/ (r.h = d.h /\ r.l >= d.l)

HalvesSub(r, d) ==
    IF r.l >= d.l THEN [h |-> r.h - d.h, l |-> r.l - d.l]
    ELSE [h |-> r.h - d.h - 1, l |-> r.l + 134217728 - d.l]

HalvesDouble(r) ==
    [h |-> 2 * r.h + (2 * r.l) \div 134217728, l |-> (2 * r.l) % 134217728]

\* one step of the long division of r by d: the next bit put before bits
DivisionStep(s, d) ==
    Let(HalvesDouble(s.r), LAMBDA r2 :
        IF HalvesGeq(r2, d)
        THEN [r |-> HalvesSub(r2, d), bits |-> <<1>> \o s.bits]
        ELSE [r |-> r2, bits |-> <<0>> \o s.bits])

RECURSIVE DivisionSteps(_, _, _)
DivisionSteps(s, d, count) ==
    IF count = 0 THEN s
    ELSE Let(DivisionStep(s, d), LAMBDA s1 : DivisionSteps(s1, d, count - 1))

\* the significand of a power of two
PowerOfTwo == Zeros(Float64Bits - 1) \o <<1>>

\* |x| / |y| rounded, y # 0: |x| with its exponent lowered when |y| is a
\* power of two, and otherwise the first bit of the quotient of the two
\* significands and 54 bits after it, nine at a time
DivMagnitude(x, y) ==
    IF x.m = <<>> THEN FloatZero
    ELSE IF y.m = PowerOfTwo THEN [m |-> x.m, e |-> x.e - (y.e + Float64Bits - 1)]
    ELSE Let(Halves(x.m), LAMBDA n :
         Let(Halves(y.m), LAMBDA d :
         Let(IF HalvesGeq(n, d) THEN [r |-> HalvesSub(n, d), bits |-> <<1>>]
                                ELSE [r |-> n, bits |-> <<0>>], LAMBDA s0 :
         Let(DivisionSteps(s0, d, 9), LAMBDA s1 :
         Let(DivisionSteps(s1, d, 9), LAMBDA s2 :
         Let(DivisionSteps(s2, d, 9), LAMBDA s3 :
         Let(DivisionSteps(s3, d, 9), LAMBDA s4 :
         Let(DivisionSteps(s4, d, 9), LAMBDA s5 :
         Let(DivisionSteps(s5, d, 9), LAMBDA s6 :
         Let(StripZeros(s6.bits), LAMBDA quotient :
             RoundToDouble(quotient, x.e - y.e - 54,
                           s6.r.h # 0 \/ s6.r.l # 0)))))))))))

\* the limbs of |x| at weight 2^e, e <= x.e
LimbsAt(x, e) ==
    IF x.m = <<>> THEN <<>>
    ELSE Let(Zeros(x.e - e) \o x.m, LAMBDA bits : LimbsOfBits(bits))

LowerExponent(x, y) ==
    IF x.m = <<>> THEN y.e ELSE IF y.m = <<>> THEN x.e ELSE Min(x.e, y.e)

\* |x| + |y| rounded
AddMagnitude(x, y) ==
    Let(LowerExponent(x, y), LAMBDA e :
    Let(LimbsAt(x, e), LAMBDA a :
    Let(LimbsAt(y, e), LAMBDA b :
    Let(AddLimbs(a, b, 0), LAMBDA limbs :
    Let(BitsOfLimbs(limbs), LAMBDA sum :
        IF sum = <<>> THEN FloatZero ELSE RoundToDouble(sum, e, FALSE))))))

\* |x| - |y| rounded, for |x| >= |y|
SubMagnitude(x, y) ==
    Let(LowerExponent(x, y), LAMBDA e :
    Let(LimbsAt(x, e), LAMBDA a :
    Let(LimbsAt(y, e), LAMBDA b :
    Let(SubLimbs(a, b, 0), LAMBDA limbs :
    Let(BitsOfLimbs(limbs), LAMBDA diff :
        IF diff = <<>> THEN FloatZero ELSE RoundToDouble(diff, e, FALSE))))))

\* x + y for x and y of any sign
AddSigned(x, y) ==
    IF x.neg = y.neg THEN Signed(x.neg, AddMagnitude(x, y))
    ELSE IF FloatLess(Magnitude(x), Magnitude(y))
    THEN Signed(y.neg, SubMagnitude(y, x))
    ELSE Signed(x.neg, SubMagnitude(x, y))

\* x < y for x and y of any sign
LessSigned(x, y) ==
    IF x.neg /\ ~y.neg THEN TRUE
    ELSE IF ~x.neg /\ y.neg THEN FALSE
    ELSE IF x.neg THEN FloatLess(Magnitude(y), Magnitude(x))
    ELSE FloatLess(Magnitude(x), Magnitude(y))

\* -x
DNeg(x) == Let(x, LAMBDA a : Signed(~a.neg, Magnitude(a)))

\* x + y
DAdd(x, y) == Let(x, LAMBDA a : Let(y, LAMBDA b : AddSigned(a, b)))

\* x - y
DSub(x, y) == Let(x, LAMBDA a : Let(y, LAMBDA b : AddSigned(a, DNeg(b))))

\* x * y
DMul(x, y) ==
    Let(x, LAMBDA a : Let(y, LAMBDA b : Let(MulMagnitude(a, b), LAMBDA product :
        Signed(a.neg # b.neg, product))))

\* x / y, y # 0
DDiv(x, y) ==
    Let(x, LAMBDA a : Let(y, LAMBDA b : Let(DivMagnitude(a, b), LAMBDA quotient :
        Signed(a.neg # b.neg, quotient))))

\* x < y
DLess(x, y) == Let(x, LAMBDA a : Let(y, LAMBDA b : LessSigned(a, b)))

\* min(a, b) and max(a, b) of Python: the first argument unless the second
\* one is smaller, or larger
DMin(a, b) == Let(a, LAMBDA x : Let(b, LAMBDA y : IF LessSigned(y, x) THEN y ELSE x))

DMax(a, b) == Let(a, LAMBDA x : Let(b, LAMBDA y : IF LessSigned(x, y) THEN y ELSE x))

(***************************************************************************)
(* The view of the CurtainComparisonWidget under the events of the wheel,  *)
(* the mouse and the keyboard.  The widget has its minimum size and holds  *)
(* two images or none; every number of the view is a Python float.         *)
(***************************************************************************)
MaxEvents == 3

\* the presses of one zoom key before the first event
InitialKeyPresses == 12

\* line 42: setMinimumSize(400, 300)
WidgetWidth == 400

WidgetHeight == 300

\* the sizes of the before image and of the after image
BeforeSize == [width |-> 4, height |-> 3]

AfterSize == [width |-> 3, height |-> 3]

\* event.position() of the events: the centre of the widget, the middle of
\* its left edge, and a point of its right edge above the middle
MousePositions ==
    {<<WidgetWidth \div 2, WidgetHeight \div 2>>, <<0, WidgetHeight \div 2>>,
     <<WidgetWidth, WidgetHeight \div 2 - 10>>}

\* self.last_mouse_pos = None
NoPosition == <<>>

\* where the wheel is turned: off the centre, to the right of it and above
WheelPositions == {<<WidgetWidth, WidgetHeight \div 2 - 10>>}

CurtainKeys == {"R", "Ctrl+0", "+", "=", "-"}

Buttons == {"LeftButton", "RightButton"}

\* the literals 1.1, 1.0 / 1.1 (line 336), 1.2 (lines 506, 511), 0.1, 10.0
\* (lines 342, 507, 512) and 1.0
WheelZoomIn == DOfRatio(11, 10)

WheelZoomOut == DDiv(DOfInt(1), WheelZoomIn)

KeyZoom == DOfRatio(12, 10)

MinViewScale == DOfRatio(1, 10)

MaxViewScale == DOfInt(10)

DOne == DOfInt(1)

DTwo == DOfInt(2)

\* widget_rect.width() and widget_rect.height() in the divisions and
\* subtractions of floats
width == DOfInt(WidgetWidth)

height == DOfInt(WidgetHeight)

\* event.position().x() and .y(), and their differences, as floats
CoordinateFloats ==
    [n \in 1..(Max(WidgetWidth, WidgetHeight) + 1) |-> DOfInt(n - 1)] @@ <<>>

coordinate(n) == Let(CoordinateFloats[Abs(n) + 1], LAMBDA f : Signed(n < 0, f))

\* line 457
handle_radius == 20

\* lines 433-434 and 471-472
max_width == Max(BeforeSize.width, AfterSize.width)

max_height == Max(BeforeSize.height, AfterSize.height)

\* lines 437-439 and 475-477
base_scale ==
    DMin(DDiv(width, DOfInt(max_width)), DDiv(height, DOfInt(max_height)))

\* lines 442-443 and 480
virtual_width == DMul(DOfInt(max_width), base_scale)

virtual_height == DMul(DOfInt(max_height), base_scale)

\* lines 444 and 481, 445
display_width(c) == DMul(virtual_width, c.view_scale)

display_height(c) == DMul(virtual_height, c.view_scale)

\* lines 448 and 484, 449
x_offset(c) ==
    DAdd(DDiv(DSub(width, display_width(c)), DTwo), c.view_offset_x)

y_offset(c) ==
    DAdd(DDiv(DSub(height, display_height(c)), DTwo), c.view_offset_y)

\* lines 458-459, distance <= handle_radius for distance = s ** 0.5: the square
\* root of a float s, rounded to the nearest float, is at most 20 exactly
\* when s is at most 400 + 2^-44, the float that follows 400
LargestInRadius ==
    Let(DOfRatio(1, 4194304), LAMBDA h :
        DAdd(DOfInt(handle_radius * handle_radius), DMul(h, h)))

WithinHandleRadius(s) == ~DLess(LargestInRadius, s)

\* lines 422-459
is_on_slider_handle(c, mouse_x, mouse_y) ==
    IF c.diff_mode \/ ~c.images THEN FALSE
    ELSE Let(display_width(c), LAMBDA dw :
         Let(DAdd(x_offset(c), DMul(dw, c.slider_position)), LAMBDA curtain_x :
         Let(DAdd(y_offset(c), DDiv(display_height(c), DTwo)), LAMBDA y :
         Let(DMax(coordinate(handle_radius),
                  DMin(y, coordinate(WidgetHeight - handle_radius))),
             LAMBDA handle_center_y :
         Let(DSub(coordinate(mouse_x), curtain_x), LAMBDA dx :
         Let(DSub(coordinate(mouse_y), handle_center_y), LAMBDA dy :
             WithinHandleRadius(DAdd(DMul(dx, dx), DMul(dy, dy)))))))))

\* max(0.0, min(1.0, relative_x / display_width)) without its two limits
SliderUnlimited(position) == position

\* line 488
SliderLimited(position) == DMax(DZero, DMin(DOne, position))

\* lines 461-490
update_slider_position(c, x) ==
    IF ~c.images THEN c
    ELSE Let(DSub(coordinate(x), x_offset(c)), LAMBDA relative_x :
         Let(SliderLimited(DDiv(relative_x, display_width(c))), LAMBDA position :
             [c EXCEPT !.slider_position = position]))

\* lines 492-497
reset_view(c) ==
    [c EXCEPT !.view_scale = DOne, !.view_offset_x = DZero, !.view_offset_y = DZero]

\* lines 347-348
center_x == DDiv(width, DTwo)

center_y == DDiv(height, DTwo)

\* lines 326-359, for a wheel turned up or down at position pos
wheel(c, up, pos) ==
    IF ~c.images THEN c
    ELSE Let(c.view_scale, LAMBDA old_zoom :
         Let(DMul(old_zoom, IF up THEN WheelZoomIn ELSE WheelZoomOut), LAMBDA zoomed :
         Let(DMax(MinViewScale, DMin(zoomed, MaxViewScale)), LAMBDA view_scale :
             IF old_zoom = view_scale THEN c
             ELSE Let(DSub(coordinate(pos[1]), center_x), LAMBDA offset_x :
                  Let(DSub(coordinate(pos[2]), center_y), LAMBDA offset_y :
                  Let(DSub(DDiv(view_scale, old_zoom), DOne), LAMBDA zoom_ratio :
                      [c EXCEPT
                         !.view_scale = view_scale,
                         !.view_offset_x = DSub(@, DMul(offset_x, zoom_ratio)),
                         !.view_offset_y = DSub(@, DMul(offset_y, zoom_ratio))]))))))

\* lines 361-385
mouse_press(c, button, pos) ==
    IF button = "LeftButton"
    THEN IF c.diff_mode
         THEN [c EXCEPT !.dragging_image = TRUE, !.last_mouse_pos = pos]
         ELSE IF is_on_slider_handle(c, pos[1], pos[2])
         THEN update_slider_position([c EXCEPT !.dragging_slider = TRUE], pos[1])
         ELSE [c EXCEPT !.dragging_image = TRUE, !.last_mouse_pos = pos]
    ELSE IF button = "RightButton" THEN reset_view(c)
    ELSE c

\* lines 392-398 and 406-412: the image follows the mouse
pan(c, pos) ==
    [c EXCEPT
       !.view_offset_x = DAdd(@, coordinate(pos[1] - c.last_mouse_pos[1])),
       !.view_offset_y = DAdd(@, coordinate(pos[2] - c.last_mouse_pos[2])),
       !.last_mouse_pos = pos]

\* lines 387-413; a position of MousePositions is not the null point, and
\* so it is true where the code tests self.last_mouse_pos
mouse_move(c, pos) ==
    IF c.diff_mode
    THEN IF c.dragging_image /\ c.last_mouse_pos # NoPosition THEN pan(c, pos) ELSE c
    ELSE IF c.dragging_slider THEN update_slider_position(c, pos[1])
    ELSE IF c.dragging_image /\ c.last_mouse_pos # NoPosition THEN pan(c, pos)
    ELSE c

\* lines 415-420
mouse_release(c, button) ==
    IF button = "LeftButton"
    THEN [c EXCEPT !.dragging_slider = FALSE, !.dragging_image = FALSE,
                   !.last_mouse_pos = NoPosition]
    ELSE c

\* lines 499-515
key_press(c, key) ==
    IF key \in {"R", "Ctrl+0"} THEN reset_view(c)
    ELSE IF key \in {"+", "="}
    THEN [c EXCEPT !.view_scale = DMin(DMul(@, KeyZoom), MaxViewScale)]
    ELSE IF key = "-"
    THEN [c EXCEPT !.view_scale = DMax(DDiv(@, KeyZoom), MinViewScale)]
    ELSE c

\* lines 16-42: the widget as __init__ leaves it, with or without its two
\* images (set_images) and in or out of diff mode (toggle_diff_mode)
NewCurtain(images, diff_mode) ==
    [view_scale |-> DOne, slider_position |-> DOfRatio(1, 2),
     view_offset_x |-> DZero, view_offset_y |-> DZero,
     dragging_slider |-> FALSE, dragging_image |-> FALSE,
     last_mouse_pos |-> NoPosition, images |-> images, diff_mode |-> diff_mode,
     events |-> 0]

\* the widget c after count presses of key
RECURSIVE AfterKeys(_, _, _)
AfterKeys(c, key, count) ==
    IF count = 0 THEN c
    ELSE Let(key_press(c, key), LAMBDA pressed : AfterKeys(pressed, key, count - 1))

InitCurtainView ==
    /\ threshold = DefaultThreshold
    /\ img1_path = NotAnImage
    /\ img2_path = NotAnImage
    /\ call = [op |-> "none", options |-> NoOptions]
    /\ ret = None
    /\ printed = NothingPrinted
    /\ resized = {}
    /\ diff_image = None
    /\ inflight = [th \in Threads |-> Idle]
    /\ gray_array = <<>>
    /\ colored = <<>>
    /\ gui = None /\ metrics = None /\ layout = None
    /\ \E images \in BOOLEAN, diff_mode \in BOOLEAN, key \in {"+", "-"},
          count \in {0, InitialKeyPresses} :
           curtain = AfterKeys(NewCurtain(images, diff_mode), key, count)

\* one event delivered to the widget, which is after it as the handler
\* leaves it
Event(op, options, after) ==
    /\ curtain.events < MaxEvents
    /\ \E c \in {after} : curtain' = [c EXCEPT !.events = @ + 1]
    /\ call' = [op |-> op, options |-> options]
    /\ UNCHANGED <<threshold, img1_path, img2_path, ret, printed, resized,
                   diff_image, inflight, gray_array, colored, gui, metrics, layout>>

wheelEvent(up, pos) ==
    Event("wheelEvent", Dict({<<"up", up>>}), wheel(curtain, up, pos))

mousePressEvent(button, pos) ==
    Event("mousePressEvent", Dict({<<"button", button>>}),
          mouse_press(curtain, button, pos))

mouseMoveEvent(pos) == Event("mouseMoveEvent", NoOptions, mouse_move(curtain, pos))

mouseReleaseEvent(button) ==
    Event("mouseReleaseEvent", Dict({<<"button", button>>}),
          mouse_release(curtain, button))

curtainKeyPressEvent(key) ==
    Event("keyPressEvent", Dict({<<"key", key>>}), key_press(curtain, key))

NextCurtainView ==
    \/ \E up \in BOOLEAN, pos \in WheelPositions : wheelEvent(up, pos)
    \/ \E button \in Buttons, pos \in MousePositions : mousePressEvent(button, pos)
    \/ \E pos \in MousePositions : mouseMoveEvent(pos)
    \/ \E button \in Buttons : mouseReleaseEvent(button)
    \/ \E key \in CurtainKeys : curtainKeyPressEvent(key)

SpecCurtainView == InitCurtainView /\ [][NextCurtainView]_vars

(***************************************************************************)
(* The layout options on their own: calculate_layout_options for a number  *)
(* of panels, then arrange_panels_in_grid with one of the options offered. *)
(***************************************************************************)
MaxPanelCount == 30

\* a window as far as arrange_panels_in_grid reads and writes it
WindowOf(num_panels) ==
    [image_views |-> [i \in 1..num_panels |-> [id |-> i, url |-> NoUrl]],
     grid |-> <<>>,
     stretch |-> <<0, 0>>]

InitLayout ==
    /\ threshold = DefaultThreshold
    /\ img1_path = NotAnImage
    /\ img2_path = NotAnImage
    /\ call = [op |-> "none", options |-> NoOptions]
    /\ ret = None
    /\ printed = NothingPrinted
    /\ resized = {}
    /\ diff_image = None
    /\ inflight = [th \in Threads |-> Idle]
    /\ gray_array = <<>>
    /\ colored = <<>>
    /\ curtain = None /\ gui = None /\ metrics = None
    /\ layout = [num_panels |-> 0, options |-> <<>>, window |-> WindowOf(0)]

\* update_layout_combo (lines 269-276) for a window of num_panels panels
call_calculate_layout_options(num_panels) ==
    /\ num_panels \in 1..MaxPanelCount
    /\ layout' = [num_panels |-> num_panels,
                  options |-> calculate_layout_options(num_panels),
                  window |-> WindowOf(num_panels)]
    /\ call' = [op |-> "calculate_layout_options", options |-> NoOptions]
    /\ UNCHANGED <<threshold, img1_path, img2_path, ret, printed, resized,
                   diff_image, inflight, gray_array, colored, curtain, gui, metrics>>

\* change_panel_layout (lines 294-300) with option i of the combo current
call_arrange_panels_in_grid(i) ==
    /\ i \in 1..Len(layout.options)
    /\ layout' = [layout EXCEPT !.window =
                    arrange_panels_in_grid(layout.window, layout.options[i][1],
                                           layout.options[i][2])]
    /\ call' = [op |-> "arrange_panels_in_grid", options |-> NoOptions]
    /\ UNCHANGED <<threshold, img1_path, img2_path, ret, printed, resized,
                   diff_image, inflight, gray_array, colored, curtain, gui, metrics>>

NextLayout ==
    \/ \E num_panels \in 1..MaxPanelCount : call_calculate_layout_options(num_panels)
    \/ \E i \in 1..(MaxPanelCount + 1) : call_arrange_panels_in_grid(i)

SpecLayout == InitLayout /\ [][NextLayout]_vars

(***************************************************************************)
(* MetricsCalculationThread.  The thread is given the list image_views of  *)
(* the window itself (line 369), not a copy, and runs while the window     *)
(* goes on handling events: run is split at the places where it reads the  *)
(* list, and the window's add, remove and drop events may come in between. *)
(***************************************************************************)
\* how many views the window creates in one behaviour
MaxViewsCreated == 3

\* the files dropped on a view: one that decodes and one that does not
MetricPaths == {[name |-> "a", decodable |-> TRUE], [name |-> "c", decodable |-> FALSE]}

Signal(signal, view) == [signal |-> signal, view |-> view]

\* the name "General" of lines 49 and 58, which is no view
General == 0

InitialMetrics ==
    [image_views |-> <<>>,
     views |-> <<>>,
     pc |-> "idle",
     gt_view |-> General,
     gt_image_path |-> NoUrl,
     slice |-> <<>>,
     i |-> 0,
     signals |-> <<>>]

InitMetrics ==
    /\ threshold = DefaultThreshold
    /\ img1_path = NotAnImage
    /\ img2_path = NotAnImage
    /\ call = [op |-> "none", options |-> NoOptions]
    /\ ret = None
    /\ printed = NothingPrinted
    /\ resized = {}
    /\ diff_image = None
    /\ inflight = [th \in Threads |-> Idle]
    /\ gray_array = <<>>
    /\ colored = <<>>
    /\ curtain = None /\ gui = None /\ layout = None
    /\ metrics = InitialMetrics

MetricsStep(op, after) ==
    /\ metrics' = after
    /\ call' = [op |-> op, options |-> NoOptions]
    /\ UNCHANGED <<threshold, img1_path, img2_path, ret, printed, resized,
                   diff_image, inflight, gray_array, colored, curtain, gui, layout>>

\* whether the thread is neither unborn nor finished (isRunning, line 366)
isRunning == metrics.pc \notin {"idle", "finished", "raised"}

\* add_image_view, line 343: a new view, without an image, put first
view_added ==
    /\ Len(metrics.views) < MaxViewsCreated
    /\ MetricsStep("add_image_view",
          [metrics EXCEPT
              !.views = Append(metrics.views, [url |-> NoUrl, deleted |-> FALSE]),
              !.image_views = <<Len(metrics.views) + 1>> \o metrics.image_views])

\* remove_image_view, lines 494-502: the first view leaves the list and
\* its widgets are deleted
view_removed ==
    /\ Len(metrics.image_views) > 0
    /\ MetricsStep("remove_image_view",
          [metrics EXCEPT
              !.views[metrics.image_views[1]].deleted = TRUE,
              !.image_views = Tail(metrics.image_views)])

\* an image file dropped on a view of the list
view_loaded(v, path) ==
    /\ InSeq(v, metrics.image_views)
    /\ metrics.views[v].url = NoUrl
    /\ MetricsStep("loadImage", [metrics EXCEPT !.views[v].url = path])

\* lines 364-379
start_metrics_calculation ==
    /\ ~isRunning
    /\ MetricsStep("start_metrics_calculation",
          [metrics EXCEPT !.pc = "line 48",
                          !.gt_view = General,
                          !.gt_image_path = NoUrl,
                          !.slice = <<>>,
                          !.i = 0,
                          !.signals = <<>>])

\* text_view.text() of a view: a call on a widget that was deleted meanwhile
\* raises RuntimeError or still answers
TextRaises(v) == IF metrics.views[v].deleted THEN BOOLEAN ELSE {FALSE}

\* lines 48-50
run_line_48 ==
    /\ metrics.pc = "line 48"
    /\ MetricsStep("run",
          IF Len(metrics.image_views) < 2
          THEN [metrics EXCEPT
                  !.signals = Append(metrics.signals, Signal("error_occurred", General)),
                  !.pc = "finished"]
          ELSE [metrics EXCEPT !.pc = "line 53"])

\* lines 53-60: image_views[-1] raises IndexError on a list emptied meanwhile
run_line_53 ==
    /\ metrics.pc = "line 53"
    /\ IF Len(metrics.image_views) = 0
       THEN MetricsStep("run", [metrics EXCEPT !.pc = "raised"])
       ELSE \E gt \in {metrics.image_views[Len(metrics.image_views)]} :
            \E raises \in TextRaises(gt) :
                MetricsStep("run",
                    IF metrics.views[gt].url = NoUrl
                    THEN [metrics EXCEPT
                            !.gt_view = gt,
                            !.signals = Append(metrics.signals,
                                               Signal("error_occurred", General)),
                            !.pc = "finished"]
                    ELSE IF raises
                    THEN [metrics EXCEPT !.gt_view = gt,
                                         !.gt_image_path = metrics.views[gt].url,
                                         !.pc = "raised"]
                    ELSE [metrics EXCEPT
                            !.gt_view = gt,
                            !.gt_image_path = metrics.views[gt].url,
                            !.signals = Append(metrics.signals,
                                               Signal("calculation_started", gt)),
                            !.pc = "line 62"])

\* line 62: the slice image_views[:-1] the loop walks
run_line_62 ==
    /\ metrics.pc = "line 62"
    /\ MetricsStep("run",
          [metrics EXCEPT
              !.slice = SubSeq(metrics.image_views, 1, Len(metrics.image_views) - 1),
              !.i = 1,
              !.pc = "line 63"])

\* lines 68-70: the three metrics open both files
MetricsRaise(img_path, gt_image_path) ==
    ~img_path.decodable \/ ~gt_image_path.decodable

\* lines 63-77, one turn of the loop: the signal of the view, or the
\* exception that leaves the except clause on line 77
LoopBody(view, in_try_raises, in_except_raises) ==
    IF metrics.views[view].url = NoUrl
    THEN Signal("error_occurred", view)
    ELSE IF ~MetricsRaise(metrics.views[view].url, metrics.gt_image_path)
            /\ ~in_try_raises
    THEN Signal("metrics_calculated", view)
    ELSE IF ~in_except_raises
    THEN Signal("error_occurred", view)
    ELSE Signal("raised", view)

run_line_63 ==
    /\ metrics.pc = "line 63"
    /\ metrics.i <= Len(metrics.slice)
    /\ \E view \in {metrics.slice[metrics.i]} :
       \E in_try_raises \in TextRaises(view) \cup TextRaises(metrics.gt_view) :
       \E in_except_raises \in TextRaises(view) :
       \E signal \in {LoopBody(view, in_try_raises, in_except_raises)} :
           MetricsStep("run",
               IF signal.signal = "raised"
               THEN [metrics EXCEPT !.pc = "raised"]
               ELSE [metrics EXCEPT !.signals = Append(metrics.signals, signal),
                                    !.i = metrics.i + 1])

\* line 79
run_line_79 ==
    /\ metrics.pc = "line 63"
    /\ metrics.i > Len(metrics.slice)
    /\ MetricsStep("run",
          [metrics EXCEPT
              !.signals = Append(metrics.signals, Signal("calculation_finished", General)),
              !.pc = "finished"])

NextMetrics ==
    \/ view_added
    \/ view_removed
    \/ \E v \in 1..MaxViewsCreated, path \in MetricPaths : view_loaded(v, path)
    \/ start_metrics_calculation
    \/ run_line_48
    \/ run_line_53
    \/ run_line_62
    \/ run_line_63
    \/ run_line_79

SpecMetrics == InitMetrics /\ [][NextMetrics]_vars


(***************************************************************************)
(* Properties of the two operations.                                       *)
(***************************************************************************)
Black == <<0, 0, 0>>

AllBlack(image) == \A pos \in DOMAIN image.px : image.px[pos] = Black

BothDecodable == img1_path.decodable /\ img2_path.decodable

SameSize(a, b) == a.width = b.width /\ a.height = b.height

\* 100.0 as a float64
Float100 == FloatOfNat(100, Float64Bits)

\* x <= y for two floats that are not negative
FloatLeq(x, y) == ~FloatLess(y, x)

\* the sum of the three channel differences at pos, as whole numbers
SumOfDiff(pair, pos) ==
    LET d == [k \in 1..3 |-> Abs(pair.img1.px[pos][k] - pair.img2.px[pos][k])]
    IN  d[1] + d[2] + d[3]

\* C1 (Identity): comparing a decodable image with itself gives, at every
\* threshold, an all-black image of the image's own size from calculate_diff
\* and diff_pixels = 0, diff_percentage = 0, similarity_percentage = 100
\* from calculate_diff_stats.
C1_Identity ==
    (img1_path.decodable /\ img2_path = img1_path) =>
        /\ call.op = "calculate_diff" =>
              /\ ret.kind = "Image"
              /\ SameSize(ret.image, img1_path.image)
              /\ DOMAIN ret.image.px = DOMAIN img1_path.image.px
              /\ AllBlack(ret.image)
        /\ call.op = "calculate_diff_stats" =>
              /\ ret.kind = "Stats"
              /\ ret.stats.diff_pixels = 0
              /\ ret.stats.diff_percentage = FloatZero
              /\ ret.stats.similarity_percentage = Float100

\* the statistics of an image that is not all black against itself, at
\* threshold 0
C1_Witness ==
    /\ img1_path.decodable /\ img2_path = img1_path
    /\ ~AllBlack(img1_path.image)
    /\ Cardinality(DOMAIN img1_path.image.px) > 1
    /\ threshold = 0
    /\ call.op = "calculate_diff_stats"
    /\ ret.kind = "Stats"

\* C2 (Symmetry): calculate_diff(A, B) and calculate_diff(B, A) return
\* images of the same size with the same pixels, at every threshold.
C2_Symmetry ==
    (call.op = "calculate_diff" /\ BothDecodable) =>
        /\ ret.kind = "Image"
        /\ ret = DiffCall(img2_path, img1_path, threshold).ret

\* two images of different sizes and contents whose difference is not black
C2_Witness ==
    /\ call.op = "calculate_diff" /\ BothDecodable
    /\ ~SameSize(img1_path.image, img2_path.image)
    /\ ret.kind = "Image" /\ ~AllBlack(ret.image)
    /\ \E pos \in DOMAIN ret.image.px : ret.image.px[pos] = Black

\* thresholds to compare the threshold of the call with
HigherThresholds == {0, 9, 10, 11, 16, 17, 20, 21, 255}

\* C3 (Threshold monotonicity): for the same pair, a threshold at least as
\* high as the one of the call gives no more diff_pixels and no larger
\* diff_percentage.
C3_ThresholdMonotonicity ==
    (call.op = "calculate_diff_stats" /\ ret.kind = "Stats") =>
        \A t2 \in HigherThresholds :
            t2 >= threshold =>
                Let(StatsCall(img1_path, img2_path, t2).ret.stats, LAMBDA s2 :
                    /\ s2.diff_pixels <= ret.stats.diff_pixels
                    /\ FloatLeq(s2.diff_percentage, ret.stats.diff_percentage))

\* statistics with pixels counted that a higher threshold no longer counts
C3_Witness ==
    /\ call.op = "calculate_diff_stats" /\ ret.kind = "Stats"
    /\ ret.stats.diff_pixels > 1
    /\ \E t2 \in HigherThresholds :
          /\ t2 > threshold
          /\ LET s2 == StatsCall(img1_path, img2_path, t2).ret.stats
             IN  s2.diff_pixels > 0 /\ s2.diff_pixels < ret.stats.diff_pixels

\* C4 (Size reconciliation): for two decodable images the diff image is
\* max(width) by max(height), total_pixels is their product, and an input
\* already of that size is not resized.
C4_SizeReconciliation ==
    (call.op # "none" /\ BothDecodable) =>
        LET a == img1_path.image
            b == img2_path.image
            w == IF a.width >= b.width THEN a.width ELSE b.width
            h == IF a.height >= b.height THEN a.height ELSE b.height
        IN  /\ call.op = "calculate_diff" =>
                  /\ ret.kind = "Image"
                  /\ ret.image.width = w /\ ret.image.height = h
                  /\ DOMAIN ret.image.px = Places(w, h)
            /\ call.op = "calculate_diff_stats" =>
                  /\ ret.kind = "Stats"
                  /\ ret.stats.total_pixels = w * h
            /\ (a.width = w /\ a.height = h) => 1 \notin resized
            /\ (b.width = w /\ b.height = h) => 2 \notin resized

\* a narrower first image against a wider second one of the same height:
\* only the first is resized
C4_Witness ==
    /\ call.op = "calculate_diff_stats" /\ BothDecodable
    /\ img1_path.image.width < img2_path.image.width
    /\ img1_path.image.height = img2_path.image.height
    /\ ret.kind = "Stats"
    /\ ret.stats.total_pixels = img2_path.image.width * img2_path.image.height
    /\ resized = {1}

\* the uint8 gray array handed to _apply_hot_colormap (lines 38-55)
Gray8(f1, f2, t) ==
    NormalizeGray(ApplyThreshold(DiffGray(AlignedPair(f1.image, f2.image)), t))

\* every channel of c within 3 of the channel of target
Near(c, target) == \A k \in 1..3 : Abs(c[k] - target[k]) <= 3

\* C5 (Colormap boundaries): _apply_hot_colormap maps gray 0 (intensity 0.0)
\* to (0,0,0), the gray values next to intensity 0.33 and 0.66 to about
\* (255,0,0) and (255,255,0), and gray 255 (intensity 1.0) to exactly
\* (255,255,255), in the table and in every image calculate_diff returns.
C5_ColormapBoundaries ==
    /\ _apply_hot_colormap(<<0>>) = <<Black>>
    /\ Near(_apply_hot_colormap(<<84>>)[1], <<255, 0, 0>>)
    /\ Near(_apply_hot_colormap(<<168>>)[1], <<255, 255, 0>>)
    /\ (call.op = "calculate_diff" /\ ret.kind = "Image") =>
          Let(Gray8(img1_path, img2_path, threshold), LAMBDA gray8 :
              \A pos \in DOMAIN gray8 :
                  /\ gray8[pos] = 0 => ret.image.px[pos] = Black
                  /\ gray8[pos] = 255 => ret.image.px[pos] = <<255, 255, 255>>)

\* C6 (All-below-threshold): for two decodable images of one size whose
\* mean channel difference is below the threshold at every pixel,
\* calculate_diff returns an all-black image and calculate_diff_stats
\* reports diff_percentage = 0.
C6_AllBelowThreshold ==
    (/\ call.op # "none" /\ BothDecodable
     /\ SameSize(img1_path.image, img2_path.image)
     /\ \A pos \in DOMAIN img1_path.image.px :
           SumOfDiff([img1 |-> img1_path.image, img2 |-> img2_path.image], pos)
               < 3 * threshold) =>
        /\ call.op = "calculate_diff" =>
              ret.kind = "Image" /\ AllBlack(ret.image)
        /\ call.op = "calculate_diff_stats" =>
              /\ ret.kind = "Stats"
              /\ ret.stats.diff_pixels = 0
              /\ ret.stats.diff_percentage = FloatZero

\* two images of one size that differ at every pixel, by less than the
\* threshold, one mean being 49/3
C6_Witness ==
    /\ call.op = "calculate_diff" /\ BothDecodable
    /\ SameSize(img1_path.image, img2_path.image)
    /\ Cardinality(DOMAIN img1_path.image.px) > 1
    /\ \A pos \in DOMAIN img1_path.image.px :
          LET s == SumOfDiff([img1 |-> img1_path.image, img2 |-> img2_path.image], pos)
          IN  s > 0 /\ s < 3 * threshold
    /\ \E pos \in DOMAIN img1_path.image.px :
          SumOfDiff([img1 |-> img1_path.image, img2 |-> img2_path.image], pos) = 49
    /\ ret.kind = "Image" /\ AllBlack(ret.image)

\* C7 (Decode failure is atomic): when either input cannot be decoded, the
\* call of calculate_diff or calculate_diff_stats ends in the failure
\* outcome (None, with the line printed for the input whose Image.open
\* raised), no image and no statistics, and no input resized, whichever
\* input is the bad one.
C7_DecodeFailureAtomic ==
    (call.op # "none" /\ ~BothDecodable) =>
        /\ ret = None
        /\ ret.kind \notin {"Image", "Stats"}
        /\ printed.text = (IF call.op = "calculate_diff"
                           THEN "Error calculating image difference"
                           ELSE "Error calculating diff stats")
        /\ printed.input = (IF ~img1_path.decodable THEN 1 ELSE 2)
        /\ resized = {}

\* a good first input and a second one that is not an image
C7_Witness ==
    /\ call.op = "calculate_diff"
    /\ img1_path.decodable /\ ~img2_path.decodable
    /\ ret = None /\ printed.input = 2

\* C8: calculate_diff_stats always returns to its caller; it returns a
\* statistics record when both inputs decode and otherwise None, which no
\* statistics record equals.
C8_StatsNeverThrows ==
    call.op = "calculate_diff_stats" =>
        /\ ret.kind \in {"Stats", "None"}
        /\ ret.kind = "Stats" <=> BothDecodable
        /\ ret.kind = "None" => ret = None /\ DOMAIN ret = {"kind"}
        /\ ret.kind = "Stats" => DOMAIN ret = {"kind", "stats"}

\* statistics asked for with a first input that is not an image
C8_Witness ==
    /\ call.op = "calculate_diff_stats"
    /\ ~img1_path.decodable /\ img2_path.decodable
    /\ ret = None

\* C9: diff_pixels is the number of pixels of the aligned pair whose mean
\* channel difference (sum / 3, before any normalisation) is greater than
\* the threshold, and 0 <= diff_pixels <= total_pixels.
C9_DiffPixelsRawCount ==
    (call.op = "calculate_diff_stats" /\ ret.kind = "Stats") =>
        Let(AlignedPair(img1_path.image, img2_path.image), LAMBDA pair :
            /\ ret.stats.diff_pixels =
                  Cardinality({pos \in DOMAIN pair.img1.px :
                                  SumOfDiff(pair, pos) > 3 * threshold})
            /\ 0 <= ret.stats.diff_pixels
            /\ ret.stats.diff_pixels <= ret.stats.total_pixels
            /\ ret.stats.total_pixels = Cardinality(DOMAIN pair.img1.px))

\* statistics of a pair with a pixel whose mean is exactly the threshold (not
\* counted) and whose normalised gray value is above it
C9_Witness ==
    /\ call.op = "calculate_diff_stats" /\ ret.kind = "Stats"
    /\ threshold = 10
    /\ ret.stats.diff_pixels > 0
    /\ ret.stats.diff_pixels < ret.stats.total_pixels
    /\ LET pair == AlignedPair(img1_path.image, img2_path.image)
           gray8 == NormalizeGray(DiffGray(pair))
       IN  \E pos \in DOMAIN gray8 :
               SumOfDiff(pair, pos) = 3 * threshold /\ gray8[pos] > threshold

\* the bits of the float x >= 0 in units of 2^lo, lo <= x.e
ExactBits(x, lo) == IF x.m = <<>> THEN <<>> ELSE Zeros(x.e - lo) \o x.m

\* the least of the exponents of x, y, 100.0 and 2^-45
LeastExponent(x, y) == Min(Min(x.e, y.e), Min(Float100.e, -45))

\* x + y = 100, without rounding
SumIs100(x, y) ==
    LET lo == LeastExponent(x, y)
    IN  AddBits(ExactBits(x, lo), ExactBits(y, lo), 0) = ExactBits(Float100, lo)

\* |x + y - 100| <= 2^-45, without rounding
SumNear100(x, y) ==
    LET lo   == LeastExponent(x, y)
        sum  == AddBits(ExactBits(x, lo), ExactBits(y, lo), 0)
        hund == ExactBits(Float100, lo)
        eps  == ExactBits([m |-> <<1>>, e |-> -45], lo)
    IN  /\ BitsLeq(sum, AddBits(hund, eps, 0))
        /\ BitsLeq(hund, AddBits(sum, eps, 0))

\* the two percentages are the float64 values of the two formulas and lie
\* in [0, 100]
PercentagesByFormula(stats) ==
    /\ stats.diff_percentage =
          Percentage(stats.diff_pixels, stats.total_pixels)
    /\ stats.similarity_percentage =
          Percentage(stats.total_pixels - stats.diff_pixels, stats.total_pixels)
    /\ FloatLeq(FloatZero, stats.diff_percentage)
    /\ FloatLeq(stats.diff_percentage, Float100)
    /\ FloatLeq(FloatZero, stats.similarity_percentage)
    /\ FloatLeq(stats.similarity_percentage, Float100)

\* C10 as stated: in every statistics record the percentages follow the two
\* formulas, lie in [0, 100] and sum to 100.
C10_PercentagesSumTo100 ==
    (call.op = "calculate_diff_stats" /\ ret.kind = "Stats") =>
        /\ PercentagesByFormula(ret.stats)
        /\ SumIs100(ret.stats.diff_percentage, ret.stats.similarity_percentage)

\* C10: in every statistics record the percentages are the float64 values
\* of diff_pixels / total_pixels * 100 and (total_pixels - diff_pixels) /
\* total_pixels * 100, each lies in [0, 100], and their sum is within 2^-45
\* of 100.
C10_Percentages ==
    (call.op = "calculate_diff_stats" /\ ret.kind = "Stats") =>
        /\ PercentagesByFormula(ret.stats)
        /\ SumNear100(ret.stats.diff_percentage, ret.stats.similarity_percentage)

\* statistics whose two percentages do not sum to 100: 1 pixel of 3
C10_Witness ==
    /\ call.op = "calculate_diff_stats" /\ ret.kind = "Stats"
    /\ ret.stats.total_pixels = 3 /\ ret.stats.diff_pixels = 1
    /\ ~SumIs100(ret.stats.diff_percentage, ret.stats.similarity_percentage)

\* a step of a call that was given threshold T: T is held and used
GivenThresholdUsed ==
    (call'.op = "calculate_diff" /\ HasThreshold(call'.options)) =>
        /\ threshold' = ThresholdOf(call'.options)
        /\ ret' = DiffCall(img1_path, img2_path, ThresholdOf(call'.options)).ret

\* a step of a call that was given no threshold: the threshold held before
\* the call is used and still held
HeldThresholdUsed ==
    /\ (call'.op = "calculate_diff" /\ ~HasThreshold(call'.options)) =>
          /\ threshold' = threshold
          /\ ret' = DiffCall(img1_path, img2_path, threshold).ret
    /\ call'.op = "calculate_diff_stats" =>
          /\ threshold' = threshold
          /\ ret' = StatsCall(img1_path, img2_path, threshold).ret

\* C11 (Threshold persistence): a new calculator has threshold 10; a
\* calculate_diff call given threshold T holds and uses T, and every
\* calculate_diff call without a threshold option and every
\* calculate_diff_stats call uses the threshold held before it and leaves it
\* as it is.
C11_ThresholdPersistence ==
    /\ threshold = DefaultThreshold
    /\ [][GivenThresholdUsed /\ HeldThresholdUsed]_vars

\* statistics taken with a threshold 17 given by an earlier call, which
\* differ from the statistics at the default threshold
C11_Witness ==
    /\ call.op = "calculate_diff_stats" /\ ret.kind = "Stats"
    /\ threshold = 17
    /\ ret # StatsCall(img1_path, img2_path, DefaultThreshold).ret

\* C12 (No hidden state): after any sequence of calls, set_images and
\* set_diff_threshold, what a call of calculate_diff or calculate_diff_stats
\* returned and printed is the value that the two inputs and the threshold
\* now held give, whatever came before.
C12_NoHiddenState ==
    /\ call.op = "calculate_diff" =>
          /\ ret = DiffCall(img1_path, img2_path, threshold).ret
          /\ printed = DiffCall(img1_path, img2_path, threshold).printed
    /\ call.op = "calculate_diff_stats" =>
          /\ ret = StatsCall(img1_path, img2_path, threshold).ret
          /\ printed = StatsCall(img1_path, img2_path, threshold).printed

\* statistics taken at threshold 17 while the widget still holds a diff
\* image of an earlier pair, computed before a set_images that failed
C12_Witness ==
    /\ call.op = "calculate_diff_stats"
    /\ threshold = 17
    /\ ret = None /\ printed.input # 0
    /\ diff_image.kind = "Image" /\ ~AllBlack(diff_image.image)

\* C13 (Threshold is read once per call): a calculate_diff call given
\* threshold T returns the image that thresholding every pixel with T gives,
\* however the call is interleaved with other calls and with
\* set_diff_threshold on the same calculator.
C13_ThresholdReadOnce ==
    (call.op = "calculate_diff" /\ HasThreshold(call.options)) =>
        ret = DiffCall(img1_path, img2_path, ThresholdOf(call.options)).ret

\* C14 (Threshold range invariant): after any sequence of calculate_diff
\* calls with any options and of set_diff_threshold calls, the threshold of
\* the calculator is an integer in 0..255.
C14_ThresholdRange == threshold \in 0..255

\* the gray array after line 49, built from the whole-number channel sums:
\* 0 where the mean sum / 3 is below t, the mean itself elsewhere
CutBySums(pair, gray, t) ==
    Array([pos \in DOMAIN gray |->
              IF SumOfDiff(pair, pos) < 3 * t THEN FloatZero ELSE gray[pos]])

\* C15 (Hard threshold cutoff): in calculate_diff a pixel's intensity is set
\* to 0 exactly when it is below the threshold; an intensity equal to the
\* threshold or above it goes into the normalisation as it is, and the
\* image returned is the one computed from that array.
C15_HardCutoff ==
    (call.op = "calculate_diff" /\ ret.kind = "Image") =>
        Let(AlignedPair(img1_path.image, img2_path.image), LAMBDA pair :
        Let(DiffGray(pair), LAMBDA gray :
        Let(CutBySums(pair, gray, threshold), LAMBDA cut :
            /\ ApplyThreshold(gray, threshold) = cut
            /\ \A pos \in DOMAIN gray :
                  (cut[pos] = FloatZero) <=>
                      (SumOfDiff(pair, pos) < 3 * threshold
                          \/ SumOfDiff(pair, pos) = 0)
            /\ ret.image.px = _apply_hot_colormap(NormalizeGray(cut)))))

\* a diff image with a pixel whose mean equals the threshold 10 and is kept
\* (not black), next to a pixel above the threshold
C15_Witness ==
    /\ call.op = "calculate_diff" /\ ret.kind = "Image"
    /\ threshold = 10
    /\ LET pair == AlignedPair(img1_path.image, img2_path.image)
       IN  /\ \E pos \in DOMAIN ret.image.px :
                  /\ SumOfDiff(pair, pos) = 3 * threshold
                  /\ ret.image.px[pos] # Black
           /\ \E pos \in DOMAIN ret.image.px :
                  SumOfDiff(pair, pos) > 3 * threshold

\* the array after line 49 holds a value above 0
HasDifference(cut) == \E pos \in DOMAIN cut : cut[pos] # FloatZero

\* the largest channel sum among the pixels that line 49 kept
MaxKeptSum(pair, t) ==
    LET kept == {SumOfDiff(pair, pos) : pos \in
                    {p \in DOMAIN pair.img1.px : SumOfDiff(pair, p) >= 3 * t}}
    IN  CHOOSE s \in kept : \A u \in kept : u <= s

\* C16 (Per-call normalisation): when the largest intensity after the
\* threshold is above 0, every value v becomes trunc(v / max * 255), worked
\* out in float32 (the exact quotient cut off, or one less), so the pixels
\* holding the maximum become 255, zeros stay 0 and every value is in
\* 0..255; when the largest is 0 every value stays 0.
C16_Normalization ==
    (call.op = "calculate_diff" /\ ret.kind = "Image") =>
        Let(AlignedPair(img1_path.image, img2_path.image), LAMBDA pair :
        Let(ApplyThreshold(DiffGray(pair), threshold), LAMBDA cut :
        Let(NormalizeGray(cut), LAMBDA gray8 :
            /\ ret.image.px = _apply_hot_colormap(gray8)
            /\ \A pos \in DOMAIN gray8 : gray8[pos] \in 0..255
            /\ \A pos \in DOMAIN gray8 : cut[pos] = FloatZero => gray8[pos] = 0
            /\ HasDifference(cut) =>
                  LET max == MaxKeptSum(pair, threshold)
                  IN  \A pos \in DOMAIN gray8 :
                          LET s == SumOfDiff(pair, pos)
                              exact == (255 * s) \div max
                          IN  /\ cut[pos] # FloatZero =>
                                    /\ gray8[pos] \in {exact, exact - 1}
                                    /\ gray8[pos] =
                                          FloatTrunc(FloatMulNat(
                                              FloatDiv(cut[pos], FloatMax(cut), Float32Bits),
                                              255, Float32Bits))
                              /\ s = max => gray8[pos] = 255
            /\ ~HasDifference(cut) => \A pos \in DOMAIN gray8 : gray8[pos] = 0)))

\* a diff image with a pixel at the maximum (sum 61, gray 255) and a pixel
\* below it that the threshold kept (sum 30, gray 125)
C16_Witness ==
    /\ call.op = "calculate_diff" /\ ret.kind = "Image"
    /\ threshold = 10
    /\ LET pair == AlignedPair(img1_path.image, img2_path.image)
           gray8 == NormalizeGray(ApplyThreshold(DiffGray(pair), threshold))
       IN  /\ \E pos \in DOMAIN gray8 :
                  SumOfDiff(pair, pos) = 61 /\ gray8[pos] = 255
           /\ \E pos \in DOMAIN gray8 :
                  SumOfDiff(pair, pos) = 30 /\ gray8[pos] = 125

\* C17 (Difference field): for every pixel of the aligned pair the intensity
\* that calculate_diff and calculate_diff_stats work with is the float32
\* mean of the three absolute channel differences |A - B|: between 0 and
\* 255, with no wrap-around where a channel of A is below that of B.
C17_DifferenceField ==
    (call.op \in {"calculate_diff", "calculate_diff_stats"} /\ BothDecodable) =>
        Let(AlignedPair(img1_path.image, img2_path.image), LAMBDA pair :
        Let(DiffGray(pair), LAMBDA gray :
            /\ \A pos \in DOMAIN pair.img1.px :
                  LET s == SumOfDiff(pair, pos)
                  IN  /\ gray[pos] = FloatOfRatio(s, 3, Float32Bits)
                      /\ FloatTrunc(gray[pos]) = s \div 3
                      /\ FloatIsWhole(gray[pos]) <=> s % 3 = 0
                      /\ 0 <= s /\ s <= 3 * 255
            /\ call.op = "calculate_diff" =>
                  ret.image.px = _apply_hot_colormap(
                                     NormalizeGray(ApplyThreshold(gray, threshold)))
            /\ call.op = "calculate_diff_stats" =>
                  ret.stats.diff_pixels =
                      Cardinality({pos \in DOMAIN gray :
                                      GreaterThanInt(gray[pos], threshold)})))

\* statistics of a pair in which a channel of the first image is below the
\* channel of the second and the mean is no whole number (61/3)
C17_Witness ==
    /\ call.op = "calculate_diff_stats" /\ ret.kind = "Stats"
    /\ LET pair == AlignedPair(img1_path.image, img2_path.image)
       IN  \E pos \in DOMAIN pair.img1.px :
               /\ pair.img1.px[pos][1] < pair.img2.px[pos][1]
               /\ SumOfDiff(pair, pos) = 61
               /\ ~FloatIsWhole(DiffGray(pair)[pos])
    /\ ret.stats.diff_pixels = ret.stats.total_pixels
    /\ ret.stats.total_pixels > 1

\* the channel k of the colour that _apply_hot_colormap gives gray value g
ChannelOf(g, k) == _apply_hot_colormap(<<g>>)[1][k]

\* channel k of the colour of g is at least that of every lower gray value
NonDecreasing(g, k) == \A h \in 0..g : ChannelOf(h, k) <= ChannelOf(g, k)

\* trunc(t / 0.33 * 255) in float32, t = g / 255
RedRamp(g) ==
    FloatTrunc(FloatMulNat(FloatDiv(Normalized(g), Float033, Float32Bits),
                           255, Float32Bits))

\* C18 (Red channel): for every gray value g in 0..255, t = g / 255, red is
\* 0 for t = 0, trunc(t / 0.33 * 255) for 0 < t < 0.33 (in float32, which
\* here is the exact value 100 g / 33 cut off) and 255 for t >= 0.33; red
\* is non-decreasing in g.
C18_RedChannel ==
    colored # <<>> =>
        \A pos \in DOMAIN gray_array :
            LET g   == gray_array[pos]
                red == colored[pos][1]
            IN  /\ g = 0 => red = 0
                /\ (g > 0 /\ 100 * g < 33 * 255) =>
                      red = RedRamp(g) /\ red = (100 * g) \div 33
                /\ 100 * g >= 33 * 255 => red = 255
                /\ NonDecreasing(g, 1)

\* the colour of gray 84, the last value on the red ramp: red 254
C18_Witness ==
    /\ colored # <<>>
    /\ \E pos \in DOMAIN gray_array :
          gray_array[pos] = 84 /\ colored[pos][1] = 254

\* trunc((t - 0.33) / 0.33 * 255) in float32, t = g / 255
GreenRamp(g) ==
    FloatTrunc(FloatMulNat(
        FloatDiv(FloatSub(Normalized(g), Float033, Float32Bits),
                 Float033, Float32Bits),
        255, Float32Bits))

\* C19 (Green channel): for every gray value g in 0..255, t = g / 255, green
\* is 0 for t <= 0.33, trunc((t - 0.33) / 0.33 * 255) for 0.33 < t < 0.66
\* (in float32: the exact value (100 g - 8415) / 33 cut off, or one less)
\* and 255 for t >= 0.66; green is non-decreasing in g.
C19_GreenChannel ==
    colored # <<>> =>
        \A pos \in DOMAIN gray_array :
            LET g     == gray_array[pos]
                green == colored[pos][2]
                exact == (100 * g - 33 * 255) \div 33
            IN  /\ 100 * g <= 33 * 255 => green = 0
                /\ (100 * g > 33 * 255 /\ 100 * g < 66 * 255) =>
                      green = GreenRamp(g) /\ green \in {exact, exact - 1}
                /\ 100 * g >= 66 * 255 => green = 255
                /\ NonDecreasing(g, 2)

\* the colour of gray 99, on the green ramp: green 44
C19_Witness ==
    /\ colored # <<>>
    /\ \E pos \in DOMAIN gray_array :
          gray_array[pos] = 99 /\ colored[pos][2] = 44

\* trunc((t - 0.8) / 0.2 * 255) in float32, t = g / 255
BlueRamp(g) ==
    FloatTrunc(FloatMulNat(
        FloatDiv(FloatSub(Normalized(g), Float08, Float32Bits),
                 Float02, Float32Bits),
        255, Float32Bits))

\* C20 (Blue channel): for every gray value g in 0..255, t = g / 255, blue is
\* 0 for t < 0.8 and trunc((t - 0.8) / 0.2 * 255) from t = 0.8 on, which is
\* 0 at t = 0.8 and 255 at t = 1.0; blue is non-decreasing in g.
C20_BlueChannel ==
    colored # <<>> =>
        \A pos \in DOMAIN gray_array :
            LET g    == gray_array[pos]
                blue == colored[pos][3]
            IN  /\ 10 * g < 8 * 255 => blue = 0
                /\ 10 * g >= 8 * 255 => blue = BlueRamp(g)
                /\ 10 * g = 8 * 255 => blue = 0
                /\ g = 255 => blue = 255
                /\ NonDecreasing(g, 3)


\* an input that decodes to an image without pixels
HasEmptyInput ==
    /\ BothDecodable
    /\ IsEmpty(img1_path.image) \/ IsEmpty(img2_path.image)

C22_CurtainModeTwoImages ==
    gui.is_curtain_mode => Len(gui.image_views) = 2


(***************************************************************************)
(* Properties relating the two operations of the calculator.               *)
(***************************************************************************)
\* the pixels line 130 counts: those whose raw intensity is above t
CountedPixels(gray, t) == {pos \in DOMAIN gray : GreaterThanInt(gray[pos], t)}

\* C23 (Image/statistics agreement): for a pair and a threshold of 1 or
\* more, calculate_diff_stats counts diff_pixels pixels, every pixel it
\* counts is not black in the image calculate_diff returns for the pair and
\* the threshold, and a pixel that is not black and not counted has a raw
\* intensity equal to the threshold.
C23_ImageStatsAgreement ==
    (call.op = "calculate_diff" /\ ret.kind = "Image" /\ threshold >= 1) =>
        Let(AlignedPair(img1_path.image, img2_path.image), LAMBDA pair :
        Let(CountedPixels(DiffGray(pair), threshold), LAMBDA counted :
            /\ StatsCall(img1_path, img2_path, threshold).ret.stats.diff_pixels
                    = Cardinality(counted)
            /\ \A pos \in counted : ret.image.px[pos] # Black
            /\ \A pos \in DOMAIN ret.image.px \ counted :
                  ret.image.px[pos] # Black
                      => SumOfDiff(pair, pos) = 3 * threshold))

\* a diff image with a counted pixel next to a pixel that is not black and
\* not counted
C23_Witness ==
    /\ call.op = "calculate_diff" /\ ret.kind = "Image" /\ threshold >= 1
    /\ LET pair == AlignedPair(img1_path.image, img2_path.image)
           counted == CountedPixels(DiffGray(pair), threshold)
       IN  /\ counted # {}
           /\ \E pos \in DOMAIN ret.image.px \ counted : ret.image.px[pos] # Black

\* C24 (Frame condition on the threshold): a calculate_diff_stats call never
\* changes the threshold the calculator holds, and a calculate_diff call
\* without options, with an empty dict or with a dict that lacks the key
\* 'threshold' leaves it as it was, whether the call returns a value or None.
C24_ThresholdFrame ==
    [][ /\ call'.op = "calculate_diff_stats" => threshold' = threshold
        /\ (call'.op = "calculate_diff" /\ ~HasThreshold(call'.options))
              => threshold' = threshold ]_vars

\* a threshold 17 given earlier and still held after a failed call that
\* came with a dict lacking the key
C24_Witness ==
    /\ threshold = 17
    /\ call.op = "calculate_diff" /\ ret = None
    /\ call.options = Dict({<<"other", 1>>})

\* C25 (Folder navigation index in range): current_folder_index is never
\* negative and, while folder_image_list is not empty, is below its length;
\* navigate_previous at index 0 and navigate_next at the last index change
\* nothing.
C25_NavigationInRange ==
    /\ gui.current_folder_index >= 0
    /\ Len(gui.folder_image_list) > 0
          => gui.current_folder_index < Len(gui.folder_image_list)
    /\ gui.current_folder_index = 0 => navigate_previous(gui) = gui
    /\ gui.current_folder_index = Len(gui.folder_image_list) - 1
          => navigate_next(gui) = gui

\* the Right key pressed in folder mode with a list of one pair, whose
\* only index is the last: navigate_next ran there
C25_Witness ==
    /\ call.op = "keyPressEvent" /\ call.key = "Right"
    /\ gui.is_folder_mode
    /\ Len(gui.folder_image_list) = 1
    /\ gui.current_folder_index = 0

C30_LayoutOptionsFit ==
    layout.num_panels >= 1 =>
        Let(layout.num_panels, LAMBDA n :
        Let(layout.options, LAMBDA options :
        Let(layout.window, LAMBDA window :
            /\ Len(options) >= 1
            /\ InSeq(<<1, n>>, options)
            /\ \A i \in 1..Len(options) : options[i][1] * options[i][2] >= n
            /\ \A i \in 1..(Len(options) - 1) :
                  Abs(options[i][1] - options[i][2])
                      <= Abs(options[i + 1][1] - options[i + 1][2])
            /\ call.op = "arrange_panels_in_grid" =>
                  /\ DOMAIN window.grid = 1..n
                  /\ Cardinality({window.grid[id] : id \in 1..n}) = n
                  /\ \A id \in 1..n :
                        /\ window.grid[id][1] \in 0..(window.stretch[1] - 1)
                        /\ window.grid[id][2] \in 0..(window.stretch[2] - 1)
                  /\ InSeq(window.stretch, options))))

\* seven panels arranged in the 3 x 3 grid offered for them, which has two
\* cells more than panels
C30_Witness ==
    /\ call.op = "arrange_panels_in_grid"
    /\ layout.num_panels = 7
    /\ layout.window.stretch = <<3, 3>>
    /\ layout.window.grid[7] = <<2, 0>>

(***************************************************************************)
(* Properties of the metrics thread.                                       *)
(***************************************************************************)
\* C29 (Metrics thread signal order): a run that emitted
\* calculation_started emits calculation_finished exactly once, as its last
\* signal, and between the two one signal, metrics_calculated or
\* error_occurred, for each view but the last, in the order of the list; a
\* run that ends without calculation_started emitted a single
\* error_occurred.
C29_SignalOrder ==
    ~isRunning /\ metrics.pc # "idle" =>
        Let(metrics.signals, LAMBDA s :
            IF \E k \in 1..Len(s) : s[k].signal = "calculation_started"
            THEN /\ s[1].signal = "calculation_started"
                 /\ s[Len(s)].signal = "calculation_finished"
                 /\ Cardinality({k \in 1..Len(s) :
                                    s[k].signal = "calculation_finished"}) = 1
                 /\ Len(s) = Len(metrics.slice) + 2
                 /\ \A k \in 1..Len(metrics.slice) :
                       /\ s[k + 1].view = metrics.slice[k]
                       /\ s[k + 1].signal \in {"metrics_calculated", "error_occurred"}
            ELSE metrics.pc = "finished"
                    => s = <<Signal("error_occurred", General)>>)

(***************************************************************************)
(* Properties of the curtain widget.                                       *)
(***************************************************************************)
\* C28 (Curtain diff image is never stale): after any sequence of
\* set_images, toggle_diff_mode and set_diff_threshold, a diff_image that is
\* not None is what calculate_diff gives for the before_path and after_path
\* the widget holds now, under the threshold the calculator holds now.
C28_DiffImageNeverStale ==
    diff_image # None => diff_image = DiffCall(img1_path, img2_path, threshold).ret

\* C27 (Curtain view bounds): after any sequence of wheel, key, mouse press,
\* move and release events, view_scale is within [0.1, 10.0] and
\* slider_position within [0.0, 1.0]; a right click, the R key, Ctrl+0 or
\* reset_view sets view_scale to 1.0 and both pan offsets to 0 and leaves
\* slider_position as it was.
C27_CurtainViewBounds ==
    /\ [](/\ ~DLess(curtain.view_scale, MinViewScale)
          /\ ~DLess(MaxViewScale, curtain.view_scale)
          /\ ~DLess(curtain.slider_position, DZero)
          /\ ~DLess(DOne, curtain.slider_position)
          /\ reset_view(curtain) =
                 [curtain EXCEPT !.view_scale = DOne, !.view_offset_x = DZero,
                                 !.view_offset_y = DZero])
    /\ [][(\/ \E pos \in MousePositions : mousePressEvent("RightButton", pos)
            \/ curtainKeyPressEvent("R")
            \/ curtainKeyPressEvent("Ctrl+0"))
              => /\ curtain'.view_scale = DOne
                 /\ curtain'.view_offset_x = DZero
                 /\ curtain'.view_offset_y = DZero
                 /\ curtain'.slider_position = curtain.slider_position]_vars

\* a right click as the third event, on a widget whose slider was dragged
\* by its handle to the right edge of the widget, where it stopped at 1.0
C27_Witness ==
    /\ call = [op |-> "mousePressEvent", options |-> Dict({<<"button", "RightButton">>})]
    /\ curtain.events = 3
    /\ curtain.dragging_slider
    /\ curtain.slider_position = DOne
    /\ curtain.view_scale = DOne
    /\ curtain.view_offset_x = DZero
    /\ curtain.view_offset_y = DZero

=============================================================================
